---- MODULE Spec2Model ----
(***************************************************************************)
(* Model of the SAM application creation workflow                          *)
(* (createNewSamApplication, addInitialLaunchConfiguration) of the AWS     *)
(* toolkit.  Every action is the code that runs between two suspension     *)
(* points (awaits) of one run; a throw runs the catch and finally blocks   *)
(* in the same step, because neither block awaits.  An awaited async       *)
(* function of the file that notified the user settles in one step and its *)
(* caller goes on in the next.                                             *)
(*                                                                         *)
(* Spec      invocations of createNewSamApplication, interleaved at their  *)
(*           awaits, every awaited call resolving or rejecting in every    *)
(*           way the code distinguishes                                    *)
(* SpecMain  Spec with the wizard of the second invocation answered in one *)
(*           way and its template registered at once or never              *)
(* FairSpecMain     SpecMain, every awaited call settling eventually       *)
(* SpecRecon addInitialLaunchConfiguration called on its own with bounded  *)
(*           inputs                                                        *)
(***************************************************************************)
EXTENDS Integers, Sequences, FiniteSets, TLC

VARIABLES
    run,            \* per run: the locals of one createNewSamApplication call
    samInitState,   \* ActivationReloadState: the single persisted resume state
    workspaceFolders, \* folders added to the workspace
    projectsOnDisk, \* projects created by a successful `sam init`
    launchJson,     \* the configurations of launch.json, in the order of the file
    rc,             \* one stand-alone call of addInitialLaunchConfiguration
    cli,            \* one stand-alone call of a SAM CLI wrapper
    client,         \* one call of createAndConfigureServiceClient
    resume          \* one call of resumeCreateNewSamApp

vars == <<run, samInitState, workspaceFolders, projectsOnDisk, launchJson, rc,
          cli, client, resume>>

Undefined == "undefined"

\* The invocations of the command.
Runs == {1, 2}

-----------------------------------------------------------------------------
(* Paths.  A path string is the sequence of its segments; a leading empty   *)
(* segment is the root of an absolute path ("/w/a" is <<"", "w", "a">>).    *)

WorkspaceFolderVar == "${workspaceFolder}"

RECURSIVE NormalizeSegs(_, _)
\* path.normalize / path.resolve: drop ".", fold ".." into its parent
NormalizeSegs(segs, acc) ==
    IF segs = <<>> THEN acc
    ELSE LET h == Head(segs) IN
         IF h = "." THEN NormalizeSegs(Tail(segs), acc)
         ELSE IF h = ".."
              THEN NormalizeSegs(Tail(segs),
                       IF Len(acc) > 1 THEN SubSeq(acc, 1, Len(acc) - 1) ELSE acc)
              ELSE NormalizeSegs(Tail(segs), Append(acc, h))

\* String.toLowerCase on the segments the model uses
LowerSeg(s) ==
    CASE s = "Test.yaml" -> "test.yaml"
      [] s = "README.md" -> "readme.md"
      [] s = "W"         -> "w"
      [] OTHER           -> s

LowerPath(p) == [i \in DOMAIN p |-> LowerSeg(p[i])]

IsAbsolute(p) == p # <<>> /\ p[1] = ""

\* tryGetAbsolutePath: expand ${workspaceFolder}, then resolve against the folder
ResolvePath(root, p) ==
    LET expanded == IF p # <<>> /\ p[1] = WorkspaceFolderVar
                    THEN root \o Tail(p) ELSE p
        absolute == IF IsAbsolute(expanded) THEN expanded ELSE root \o expanded
    IN  NormalizeSegs(absolute, <<>>)

\* pathutils.areEqual(workspaceFolderPath, path1, path2)
areEqual(root, path1, path2) ==
    LowerPath(ResolvePath(root, path1)) = LowerPath(ResolvePath(root, path2))

-----------------------------------------------------------------------------
(* Debug configurations (AwsSamDebuggerConfiguration).  A configuration      *)
(* object lives in the array the provider returned; `filter` builds a new   *)
(* array holding references to the same objects, so a list of               *)
(* configurations is a sequence of indices into the provider's array.       *)

NoLambda == [defined |-> FALSE]

TemplateTarget(p) == [target |-> "template", templatePath |-> p, logicalId |-> "resource"]
ApiTarget(p)      == [target |-> "api", templatePath |-> p, logicalId |-> "resource"]
CodeTarget        == [target |-> "code", lambdaHandler |-> "app.handler"]

\* isTemplateTargetProperties(config.invokeTarget)
isTemplateTargetProperties(t) == t.target = "template"

MatchesTarget(c, folderPath, targetPath) ==
    /\ isTemplateTargetProperties(c.invokeTarget)
    /\ areEqual(folderPath, c.invokeTarget.templatePath, targetPath)

\* A plausible slip: literal string equality instead of path equality.
FilterConfigsLiteral(configurations, folderPath, targetPath) ==
    SelectSeq([i \in 1..Len(configurations) |-> i],
              LAMBDA i : /\ isTemplateTargetProperties(configurations[i].invokeTarget)
                         /\ configurations[i].invokeTarget.templatePath = targetPath)

\* configurations.filter(...): references, in the provider's order
FilterConfigs(configurations, folderPath, targetPath) ==
    SelectSeq([i \in 1..Len(configurations) |-> i],
              LAMBDA i : MatchesTarget(configurations[i], folderPath, targetPath))

InList(list, i) == \E k \in DOMAIN list : list[k] = i

\* A plausible slip: the holder is replaced instead of updated.
StampRuntimeReplace(objects, filtered, runtime) ==
    [i \in DOMAIN objects |->
        IF InList(filtered, i)
        THEN [objects[i] EXCEPT !.lambda = [defined |-> TRUE, runtime |-> runtime]]
        ELSE objects[i]]

\* filtered.forEach(configuration => { ...lambda.runtime = runtime })
StampRuntime(objects, filtered, runtime) ==
    [i \in DOMAIN objects |->
        IF InList(filtered, i)
        THEN [objects[i] EXCEPT !.lambda =
                 IF @.defined THEN [@ EXCEPT !.runtime = runtime]
                 ELSE [defined |-> TRUE, runtime |-> runtime]]
        ELSE objects[i]]

\* What provideDebugConfigurations resolved to: an array, or undefined.
NoConfigurations == [yields |-> FALSE, list |-> <<>>]
Configurations(l) == [yields |-> TRUE, list |-> l]

Absent == [absent |-> TRUE, list |-> <<>>]
Present(l) == [absent |-> FALSE, list |-> l]

\* The call's state on entry (provider awaited).
ReconStart(folderPath, targetPath, runtime) ==
    [phase       |-> "provide",
     folder      |-> folderPath,
     target      |-> targetPath,
     runtime     |-> runtime,
     provided    |-> NoConfigurations,   \* the provider's answer, as it was returned
     objects     |-> <<>>,               \* the provider's objects, as they are now
     filtered    |-> <<>>,
     persistArgs |-> <<>>,               \* one entry per addDebugConfigurations call
     existing    |-> <<>>,               \* launch.json as addDebugConfigurations read it
     returned    |-> Absent]

\* A plausible slip: nothing is persisted when nothing matched.
ReconProvidedSkipEmpty(rec, out, stored) ==
    IF ~out.yields
    THEN [rec EXCEPT !.phase = "returned", !.provided = out, !.returned = Absent]
    ELSE LET filtered == FilterConfigs(out.list, rec.folder, rec.target)
             objects  == IF rec.runtime # Undefined
                         THEN StampRuntime(out.list, filtered, rec.runtime)
                         ELSE out.list
         IN  IF filtered = <<>>
             THEN [rec EXCEPT !.phase = "returned", !.provided = out,
                              !.objects = objects, !.filtered = filtered,
                              !.returned = Present(filtered)]
             ELSE [rec EXCEPT !.phase = "persist", !.provided = out,
                              !.objects = objects, !.filtered = filtered,
                              !.existing = stored,
                              !.persistArgs = Append(@, [list   |-> filtered,
                                                         values |-> [k \in DOMAIN filtered |-> objects[filtered[k]]]])]

\* The provider resolved: filter, stamp, call addDebugConfigurations, which
\* reads the configurations launch.json holds (stored) before it suspends.
ReconProvided(rec, out, stored) ==
    IF ~out.yields
    THEN [rec EXCEPT !.phase = "returned", !.provided = out, !.returned = Absent]
    ELSE LET filtered == FilterConfigs(out.list, rec.folder, rec.target)
             objects  == IF rec.runtime # Undefined
                         THEN StampRuntime(out.list, filtered, rec.runtime)
                         ELSE out.list
         IN  [rec EXCEPT !.phase = "persist", !.provided = out,
                         !.objects = objects, !.filtered = filtered,
                         !.existing = stored,
                         !.persistArgs = Append(@, [list   |-> filtered,
                                                    values |-> [k \in DOMAIN filtered |-> objects[filtered[k]]]])]

\* The provider rejected: the exception leaves the call.
ReconProviderFailed(rec) == [rec EXCEPT !.phase = "threw"]

\* addDebugConfigurations resolved: `return filtered`.
ReconPersisted(rec) ==
    [rec EXCEPT !.phase = "returned", !.returned = Present(rec.filtered)]

\* A plausible slip: the persist failure is caught and the list returned.
ReconPersistFailedSwallowed(rec) ==
    [rec EXCEPT !.phase = "returned", !.returned = Present(rec.filtered)]

\* addDebugConfigurations rejected: no catch in the function, the exception leaves it.
ReconPersistFailed(rec) == [rec EXCEPT !.phase = "threw"]

\* The values of the configurations a list refers to.
ValuesOf(objects, list) == [k \in DOMAIN list |-> objects[list[k]]]

\* What addDebugConfigurations writes to launch.json when it completes: the
\* configurations it was given, then the ones it read when it was called.
LaunchJsonWritten(rec) == rec.persistArgs[1].values \o rec.existing

-----------------------------------------------------------------------------
(* createNewSamApplication: the locals of one run.                          *)

eventBridgeStarterAppTemplate == "eventBridgeStarterApp"
helloWorldTemplate == "helloWorld"

Runtimes     == {"nodejs12.x", "python3.8"}
PackageTypes == {"Zip", "Image"}
Templates    == {helloWorldTemplate, eventBridgeStarterAppTemplate}

Location == <<"", "w">>       \* config.location.fsPath
AppName  == "app"             \* config.name

NoConfig == [defined |-> FALSE]

\* What the wizard can answer with (CreateNewSamAppWizardResponse).
WizardResponses ==
    [defined : {TRUE}, name : {AppName}, location : {Location},
     runtime : Runtimes, packageType : PackageTypes, template : Templates]

NoState == [set |-> FALSE]

NoInitArguments == [built |-> FALSE]

\* initArguments.extraContent: absent, or a mapping from keys to strings, kept
\* as its members in insertion order; a string is the sequence of its pieces.
NoExtraContent == [defined |-> FALSE, pairs |-> <<>>]
ExtraContent(pairs) == [defined |-> TRUE, pairs |-> pairs]

\* schemaTemplateParameters.templateExtraContent
SchemaExtraContent ==
    ExtraContent(<<[key |-> <<"AWS_Schema_registry">>, value |-> <<"registry">>],
                   [key |-> <<"AWS_Schema_name">>,     value |-> <<"schema">>]>>)

\* The locals at the top of the function (lines 194-201); pc "idle" is a
\* command that has not been invoked yet.
InitRun ==
    [pc                |-> "idle",
     createResult      |-> "Succeeded",
     reason            |-> "unknown",
     lambdaPackageType |-> Undefined,
     createRuntime     |-> Undefined,
     config            |-> NoConfig,
     samVersion        |-> Undefined,
     initArguments     |-> NoInitArguments,
     uri               |-> <<>>,
     recon             |-> ReconStart(<<>>, <<>>, Undefined),
     pollElapsed       |-> 0,
     stateWrite        |-> "keep",    \* the step's write to the resume state, if any
     \* what an observer of the run sees
     called            |-> <<>>,      \* the steps that ran, in order
     stateCalls        |-> <<>>,      \* its setSamInitState ("set") and clearSamInitState ("clear") calls
     threw             |-> "none",    \* the step whose exception reached the catch
     helperThrew       |-> FALSE,     \* the awaited function of this file threw; not caught yet
     cliValidation     |-> "none",    \* what detectValidSamCli answered the workflow
     initValidation    |-> "none",    \* what detectValidSamCli answered runSamCliInit
     wizardAnswer      |-> "none",    \* "config" or "undefined" once the wizard returned
     pollOutcome       |-> "none",    \* "registered" or "timeout" once waitUntil settled
     pollLookups       |-> 0,         \* getRegisteredItem calls made by waitUntil
     pollFound         |-> FALSE,     \* some getRegisteredItem call returned the item
     persistRejected   |-> FALSE,     \* addDebugConfigurations rejected
     records           |-> <<>>,      \* recordSamInit calls
     channelErrors     |-> 0,         \* getLogger('channel').error
     logErrors         |-> 0,         \* getLogger().error
     channelShown      |-> FALSE,     \* ext.outputChannel.show
     notifications     |-> <<>>,      \* vscode.window.show*Message
     invokerCalls      |-> 0]         \* SamCliProcessInvoker.invoke

Raise(s, step)  == [s EXCEPT !.threw = step]
Notify(s, kind, id, link) ==
    [s EXCEPT !.notifications = Append(@, [kind |-> kind, id |-> id, link |-> link])]

\* A plausible slip: the handler logs but leaves result and reason alone.
CatchBlockKeepsOutcome(s) ==
    [s EXCEPT !.stateWrite    = "clear",
              !.channelShown  = TRUE,
              !.channelErrors = @ + 1,
              !.logErrors     = @ + 1]

\* A plausible slip: the handler keeps a reason that was already assigned.
CatchBlockKeepsReason(s) ==
    [s EXCEPT !.createResult  = "Failed",
              !.reason        = IF @ = "unknown" THEN "error" ELSE @,
              !.stateWrite    = "clear",
              !.channelShown  = TRUE,
              !.channelErrors = @ + 1,
              !.logErrors     = @ + 1]

\* catch (err) { ...; activationReloadState.clearSamInitState() }  (lines 356-374)
CatchBlock(s) ==
    [s EXCEPT !.createResult  = "Failed",
              !.reason        = "error",
              !.stateWrite    = "clear",
              !.channelShown  = TRUE,
              !.channelErrors = @ + 1,
              !.logErrors     = @ + 1]

\* A plausible slip: the outcome is recorded only for runs that got a configuration.
FinallyBlockSkipsCancelled(s) ==
    IF s.config.defined
    THEN [s EXCEPT !.pc = "done",
                   !.records = Append(@, [lambdaPackageType |-> s.lambdaPackageType,
                                          result  |-> s.createResult,
                                          reason  |-> s.reason,
                                          runtime |-> s.createRuntime,
                                          version |-> s.samVersion])]
    ELSE [s EXCEPT !.pc = "done"]

\* finally { recordSamInit({...}) }  (lines 375-383)
FinallyBlock(s) ==
    [s EXCEPT !.pc = "done",
              !.records = Append(@, [lambdaPackageType |-> s.lambdaPackageType,
                                     result  |-> s.createResult,
                                     reason  |-> s.reason,
                                     runtime |-> s.createRuntime,
                                     version |-> s.samVersion])]

\* `return` inside the try block: only the finally block is left to run.
Return(s) == [s EXCEPT !.pc = "return"]

\* How a step leaves the try block: on to the next await, through catch and
\* finally (an exception), or through finally alone (return / end of block).
Leave(s) ==
    IF s.threw # "none" THEN FinallyBlock(CatchBlock(s))
    ELSE IF s.pc = "return" THEN FinallyBlock(s)
    ELSE s


-----------------------------------------------------------------------------
(* The steps of the try block, each as a function of the run's locals and   *)
(* of what the awaited call resolved to.                                    *)

PollTimeout  == 5000
PollInterval == 500

\* `await f(...)`: the call is issued and the run is suspended on it.
Await(s, step) == [s EXCEPT !.pc = step, !.called = Append(@, step)]

ValidationResults == {"valid", "notFound", "versionInvalid"}

\* An async function of this file settled: its caller, suspended on it,
\* goes on in a later turn of the event loop.
Settled(s, step) == [s EXCEPT !.pc = step \o ".settled"]

\* The caller goes on after `await step(...)`: the exception of the awaited
\* function is thrown at the await, or the next call is awaited.
Resumed(s, step, next) ==
    IF s.helperThrew THEN Raise([s EXCEPT !.helperThrew = FALSE], step)
    ELSE Await(s, next)

\* throwAndNotifyIfInvalid(validationResult)
throwAndNotifyIfInvalid(s, validationResult) ==
    IF validationResult = "valid" THEN s
    ELSE [Notify(s, "error", "samcli.invalid", TRUE) EXCEPT !.helperThrew = TRUE]

\* A plausible slip: the validation result is not looked at.
validateSamCliUnchecked(s, validationResult) == Settled(s, "validateSamCli")

\* validateSamCli(samCliContext.validator), detectValidSamCli resolved  (lines 386-389)
validateSamCli(s, validationResult) ==
    Settled(throwAndNotifyIfInvalid(s, validationResult), "validateSamCli")

\* await validateSamCli(...) is over (lines 204-207)
SamCliValidated(s) == Resumed(s, "validateSamCli", "getCredentials")

\* getDependencyManager(runtime)
getDependencyManager(runtime) ==
    CASE runtime = "nodejs12.x" -> "npm"
      [] runtime = "python3.8"  -> "pip"
      [] OTHER                  -> "unknown"

\* `amazon/${createRuntime}-base`
BaseImageOf(runtime) ==
    CASE runtime = "nodejs12.x" -> "amazon/nodejs12.x-base"
      [] runtime = "python3.8"  -> "amazon/python3.8-base"
      [] OTHER                  -> "amazon/undefined-base"

\* A plausible slip: the runtime is set on both branches.
PackageBranchRuntimeAlways(s) ==
    Await(IF s.config.packageType = "Image"
          THEN [s EXCEPT !.lambdaPackageType = "Image",
                         !.initArguments.runtime = s.createRuntime,
                         !.initArguments.baseImage = BaseImageOf(s.createRuntime)]
          ELSE [s EXCEPT !.lambdaPackageType = "Zip",
                         !.initArguments.runtime = s.createRuntime,
                         !.initArguments.template = s.config.template],
          "runSamCliInit")

\* if (config.packageType === 'Image') {...} else {...}; await runSamCliInit(...)
PackageBranch(s) ==
    Await(IF s.config.packageType = "Image"
          THEN [s EXCEPT !.lambdaPackageType = "Image",
                         !.initArguments.baseImage = BaseImageOf(s.createRuntime)]
          ELSE [s EXCEPT !.lambdaPackageType = "Zip",
                         !.initArguments.runtime = s.createRuntime,
                         !.initArguments.template = s.config.template],
          "runSamCliInit")

\* A plausible slip: the cancelled wizard is not told apart from a failure.
WizardCancelledAsFailure(s) ==
    Return([s EXCEPT !.createResult = "Failed",
                     !.reason       = "userCancelled"])

\* if (!config) { createResult = 'Cancelled'; reason = 'userCancelled'; return }
WizardCancelled(s) ==
    Return([s EXCEPT !.createResult = "Cancelled",
                     !.reason       = "userCancelled"])

\* config = await wizard.run() resolved (lines 212-247)
WizardAnswered(s, answer) ==
    IF ~answer.defined THEN WizardCancelled(s)
    ELSE LET s1 == [s EXCEPT !.config        = answer,
                             !.createRuntime = answer.runtime,
                             !.initArguments =
                                 [built             |-> TRUE,
                                  name              |-> answer.name,
                                  location          |-> answer.location,
                                  dependencyManager |-> getDependencyManager(answer.runtime),
                                  extraContent      |-> NoExtraContent,
                                  baseImage         |-> Undefined,
                                  runtime           |-> Undefined,
                                  template          |-> Undefined]]
         IN  IF answer.template = eventBridgeStarterAppTemplate
             THEN Await(s1, "buildSchemaTemplateParameters")
             ELSE PackageBranch(s1)

\* buildSchemaTemplateParameters resolved (lines 240-257)
SchemaParametersBuilt(s) ==
    PackageBranch([s EXCEPT !.initArguments.extraContent = SchemaExtraContent])

\* What SamCliProcessInvoker.invoke resolves to (ChildProcessResult); a
\* process that could not be launched resolves with an error and exit code -1.
ProcessResults ==
    { [exitCode |-> 0,  error |-> "none",         stdout |-> "", stderr |-> ""],
      [exitCode |-> 1,  error |-> "none",         stdout |-> "", stderr |-> "stderr text"],
      [exitCode |-> -1, error |-> "spawn ENOENT", stdout |-> "", stderr |-> ""] }

\* One call of a SAM CLI wrapper: what it was given, what it did (the
\* invocations of the process invoker, the log entries, the order of both in
\* `trace`) and how it ended (phase "returned" or "raised", with the error).
NoError == [kind |-> "none", expected |-> 0, actual |-> 0,
            stdout |-> "", stderr |-> "", message |-> "none"]

NoResult == [exitCode |-> 0, error |-> "none", stdout |-> "", stderr |-> ""]

CliStart(fn, request, result, expected) ==
    [fn          |-> fn,
     phase       |-> "called",
     request     |-> request,
     validation  |-> "none",
     result      |-> result,
     expected    |-> expected,
     invocations |-> <<>>,
     log         |-> <<>>,
     trace       |-> <<>>,
     error       |-> NoError]

CliIdle == [CliStart("none", NoInitArguments, NoResult, 0) EXCEPT !.phase = "idle"]

\* The process could not be launched: the result holds the launch error.
LaunchError(result) == result.error # "none"

\* A plausible slip: the exit code is compared with 0, not with the expected code.
ExitMismatchNonZero(result, expected) == LaunchError(result) \/ result.exitCode # 0

\* The result is a mismatch: result.exitCode !== expectedExitCode, a launch
\* error being a mismatch whatever the exit code is.
ExitMismatch(result, expected) == LaunchError(result) \/ result.exitCode # expected

\* What the validator logs and what its error carries.
Diagnostic(result, expected) ==
    [expected |-> expected,
     actual   |-> result.exitCode,
     stdout   |-> result.stdout,
     stderr   |-> result.stderr,
     message  |-> result.error]

\* A plausible slip: the diagnostic is not logged.
LogUnexpectedExitCodeSkipped(c) == c

\* logger.error(<the diagnostic>)
LogUnexpectedExitCode(c) ==
    [c EXCEPT !.log   = Append(@, Diagnostic(c.result, c.expected)),
              !.trace = Append(@, "log")]

\* throw new Error(<unexpected exit code>)
ThrowUnexpectedExitCode(c) ==
    [c EXCEPT !.phase = "raised",
              !.trace = Append(@, "raise"),
              !.error = [kind |-> "UnexpectedExitCode"]
                        @@ Diagnostic(c.result, c.expected)]

\* logAndThrowIfUnexpectedExitCode(processResult, expectedExitCode)
logAndThrowIfUnexpectedExitCode(c, result, expected) ==
    LET c1 == [c EXCEPT !.result = result, !.expected = expected]
    IN  IF ExitMismatch(result, expected)
        THEN ThrowUnexpectedExitCode(LogUnexpectedExitCode(c1))
        ELSE c1

\* The wrapper's promise resolves unless something was thrown.
CliReturned(c) ==
    IF c.phase = "raised" THEN c
    ELSE [c EXCEPT !.phase = "returned", !.trace = Append(@, "return")]

\* One element of an argument vector: plain text, or the text that
\* JSON.stringify produced, kept as its characters.
Arg(text)      == [text |-> text, json |-> <<>>]
JsonArg(chars) == [text |-> "", json |-> chars]

\* await context.invoker.invoke({ spawnOptions: { cwd }, arguments: args })
Invoke(c, cwd, args, result) ==
    [c EXCEPT !.invocations = Append(@, [cwd |-> cwd, args |-> args]),
              !.trace       = Append(@, "invoke"),
              !.result      = result]

\* JSON.stringify of a string: the characters between quotes, each as itself
\* or as its escape sequence.
DQ == "\""
BS == "\\"

\* A plausible slip: the characters are copied without escaping.
JsonEscapeNone(str) == str

\* Characters.  A piece of a string is a run of printable ASCII characters,
\* one of "\t", "\n", "\f", "\r", or the name of the code point of one other
\* character (UTF-16 code unit): "U+000B" is the vertical tab, "U+00E9" the e
\* with an acute accent, "U+2003" the em space, "U+D83D" a high surrogate.
HexDigits == <<"0", "1", "2", "3", "4", "5", "6", "7", "8", "9", "a", "b", "c", "d", "e", "f">>

UpperHexDigits == <<"0", "1", "2", "3", "4", "5", "6", "7", "8", "9", "A", "B", "C", "D", "E", "F">>

IsUpperHexDigit(digit) == \E k \in DOMAIN UpperHexDigits : UpperHexDigits[k] = digit

HexValue(digit) == (CHOOSE k \in DOMAIN UpperHexDigits : UpperHexDigits[k] = digit) - 1

\* The code point names of the characters that can be written as themselves.
CodePointName(ch) ==
    CASE ch = "\t" -> "U+0009"
      [] ch = "\n" -> "U+000A"
      [] ch = "\f" -> "U+000C"
      [] ch = "\r" -> "U+000D"
      [] ch = " "  -> "U+0020"
      [] OTHER     -> ch

IsCodePointName(name) ==
    /\ Len(name) = 6
    /\ SubSeq(name, 1, 2) = "U+"
    /\ \A k \in 3..6 : IsUpperHexDigit(SubSeq(name, k, k))

\* The code unit a code point name stands for.
CodeUnit(name) ==
    4096 * HexValue(SubSeq(name, 3, 3)) + 256 * HexValue(SubSeq(name, 4, 4))
    + 16 * HexValue(SubSeq(name, 5, 5)) + HexValue(SubSeq(name, 6, 6))

IsCodeUnitIn(ch, low, high) ==
    LET name == CodePointName(ch)
    IN  IsCodePointName(name) /\ CodeUnit(name) \in low..high

IsControlCharacter(ch) == IsCodeUnitIn(ch, 0, 31)          \* U+0000-U+001F
IsHighSurrogate(ch)    == IsCodeUnitIn(ch, 55296, 56319)   \* U+D800-U+DBFF
IsLowSurrogate(ch)     == IsCodeUnitIn(ch, 56320, 57343)   \* U+DC00-U+DFFF

\* \uxxxx, the digits in lower case
UnicodeEscape(name) ==
    LET unit == CodeUnit(name)
    IN  <<BS, "u", HexDigits[(unit \div 4096) + 1], HexDigits[((unit \div 256) % 16) + 1],
          HexDigits[((unit \div 16) % 16) + 1], HexDigits[(unit % 16) + 1]>>

\* QuoteJSONString, one code unit: the quote, the backslash and the characters
\* below U+0020 are written as escape sequences (the short one where JSON has
\* one, else \u00xx), a surrogate that is not part of a pair as \udxxx, every
\* other character as itself.
JsonEscapeChar(ch) ==
    LET name == CodePointName(ch)
    IN  CASE ch = DQ           -> <<BS, DQ>>
          [] ch = BS           -> <<BS, BS>>
          [] name = "U+0008"   -> <<BS, "b">>
          [] name = "U+0009"   -> <<BS, "t">>
          [] name = "U+000A"   -> <<BS, "n">>
          [] name = "U+000C"   -> <<BS, "f">>
          [] name = "U+000D"   -> <<BS, "r">>
          [] IsControlCharacter(ch) \/ IsHighSurrogate(ch) \/ IsLowSurrogate(ch) ->
                UnicodeEscape(name)
          [] OTHER             -> <<ch>>

\* A high surrogate followed by a low surrogate is one character, copied.
RECURSIVE JsonEscape(_)
JsonEscape(str) ==
    IF str = <<>> THEN <<>>
    ELSE IF Len(str) >= 2 /\ IsHighSurrogate(str[1]) /\ IsLowSurrogate(str[2])
         THEN <<str[1], str[2]>> \o JsonEscape(Tail(Tail(str)))
         ELSE JsonEscapeChar(Head(str)) \o JsonEscape(Tail(str))

JsonQuote(str) == <<DQ>> \o JsonEscape(str) \o <<DQ>>

RECURSIVE JsonMembers(_)
JsonMembers(pairs) ==
    IF pairs = <<>> THEN <<>>
    ELSE JsonQuote(pairs[1].key) \o <<":">> \o JsonQuote(pairs[1].value)
         \o (IF Len(pairs) > 1 THEN <<",">> ELSE <<>>)
         \o JsonMembers(Tail(pairs))

\* JSON.stringify of an object whose values are strings (SchemaTemplateExtraContext):
\* the members in insertion order.
JsonStringify(pairs) == <<"{">> \o JsonMembers(pairs) \o <<"}">>

\* getSamCliTemplateParameter(template)
getSamCliTemplateParameter(template) ==
    CASE template = helloWorldTemplate            -> "hello-world"
      [] template = eventBridgeStarterAppTemplate -> "eventBridge-schema-app"
      [] OTHER                                    -> Undefined

\* A plausible slip: --runtime is emitted on both branches.
InitArgsRuntimeAlways(request) ==
    <<Arg("init"), Arg("--name"), Arg(request.name), Arg("--no-interactive"),
      Arg("--dependency-manager"), Arg(request.dependencyManager),
      Arg("--runtime"), Arg(request.runtime)>>
    \o (IF request.baseImage # Undefined
        THEN <<Arg("--base-image"), Arg(request.baseImage)>>
        ELSE IF request.template # Undefined
             THEN <<Arg("--app-template"),
                    Arg(getSamCliTemplateParameter(request.template))>>
             ELSE <<>>)
    \o (IF request.extraContent.defined
        THEN <<Arg("--extra-context"),
               JsonArg(JsonStringify(request.extraContent.pairs))>>
        ELSE <<>>)

\* A plausible slip: --app-template is emitted whether or not a template is set.
InitArgsAlwaysTemplate(request) ==
    <<Arg("init"), Arg("--name"), Arg(request.name), Arg("--no-interactive"),
      Arg("--dependency-manager"), Arg(request.dependencyManager)>>
    \o (IF request.baseImage # Undefined
        THEN <<Arg("--base-image"), Arg(request.baseImage)>>
        ELSE <<Arg("--runtime"), Arg(request.runtime),
               Arg("--app-template"),
               Arg(getSamCliTemplateParameter(request.template))>>)
    \o (IF request.extraContent.defined
        THEN <<Arg("--extra-context"),
               JsonArg(JsonStringify(request.extraContent.pairs))>>
        ELSE <<>>)

\* The argument vector of `sam init` for a request (SamCliInitArgs).
InitArgs(request) ==
    <<Arg("init"), Arg("--name"), Arg(request.name), Arg("--no-interactive"),
      Arg("--dependency-manager"), Arg(request.dependencyManager)>>
    \o (IF request.baseImage # Undefined
        THEN <<Arg("--base-image"), Arg(request.baseImage)>>
        ELSE <<Arg("--runtime"), Arg(request.runtime)>>
             \o (IF request.template # Undefined
                 THEN <<Arg("--app-template"),
                        Arg(getSamCliTemplateParameter(request.template))>>
                 ELSE <<>>))
    \o (IF request.extraContent.defined
        THEN <<Arg("--extra-context"),
               JsonArg(JsonStringify(request.extraContent.pairs))>>
        ELSE <<>>)

\* A plausible slip: --image-repository is emitted whether or not a repository is set.
PackageArgsAlwaysRepo(request) ==
    <<Arg("package"),
      Arg("--template-file"), Arg(request.sourceTemplateFile),
      Arg("--s3-bucket"), Arg(request.s3Bucket),
      Arg("--output-template-file"), Arg(request.destinationTemplateFile),
      Arg("--region"), Arg(request.region),
      Arg("--image-repository"), Arg(request.ecrRepo)>>

\* The argument vector of `sam package` for a request (SamCliPackageParameters).
PackageArgs(request) ==
    <<Arg("package"),
      Arg("--template-file"), Arg(request.sourceTemplateFile),
      Arg("--s3-bucket"), Arg(request.s3Bucket),
      Arg("--output-template-file"), Arg(request.destinationTemplateFile),
      Arg("--region"), Arg(request.region)>>
    \o (IF request.ecrRepo # Undefined
        THEN <<Arg("--image-repository"), Arg(request.ecrRepo)>>
        ELSE <<>>)

\* A plausible slip: a failed invocation is tried once more.
InvokeAndCheckRetrying(c, cwd, args, result) ==
    LET c1 == Invoke(c, cwd, args, result)
    IN  logAndThrowIfUnexpectedExitCode(
            IF ExitMismatch(result, 0) THEN Invoke(c1, cwd, args, result) ELSE c1,
            result, 0)

\* const childProcessResult = await invoker.invoke(...);
\* logAndThrowIfUnexpectedExitCode(childProcessResult, 0)
InvokeAndCheck(c, cwd, args, result) ==
    logAndThrowIfUnexpectedExitCode(Invoke(c, cwd, args, result), result, 0)

\* What throwAndNotifyIfInvalid throws for an invalid CLI.
InvalidSamCliError(validationResult) ==
    [NoError EXCEPT !.kind = "InvalidSamCli", !.message = validationResult]

\* runSamCliInit(initArguments, context) as a whole: the validator answered
\* validationResult, and the invoker, if it is reached, resolved with result.
SamCliInitCall(c, validationResult, result) ==
    LET c1 == [c EXCEPT !.validation = validationResult]
    IN  IF validationResult # "valid"
        THEN [c1 EXCEPT !.phase = "raised",
                        !.trace = Append(@, "raise"),
                        !.error = InvalidSamCliError(validationResult)]
        ELSE CliReturned(InvokeAndCheck(c1, c1.request.location,
                                        InitArgs(c1.request), result))

\* runSamCliPackage(packageArguments, invoker) as a whole.
runSamCliPackage(c, result) ==
    CliReturned(InvokeAndCheck(c, <<>>, PackageArgs(c.request), result))

\* runSamCliInit(initArguments, samCliContext) inside the workflow: validate,
\* invoke once, expect exit code 0
runSamCliInit(s, validationResult, result) ==
    LET s1 == throwAndNotifyIfInvalid(s, validationResult)
        c  == SamCliInitCall(CliStart("runSamCliInit", s.initArguments, NoResult, 0),
                             validationResult, result)
    IN  Settled([s1 EXCEPT !.invokerCalls = @ + Len(c.invocations),
                           !.logErrors    = @ + Len(c.log),
                           !.helperThrew  = (c.phase = "raised")],
                "runSamCliInit")

\* await runSamCliInit(...) is over (lines 259-261)
SamCliInitReturned(s) == Resumed(s, "runSamCliInit", "getMainUri")

\* The state setSamInitState persists (lines 298-302)
SamInitStateOf(s) ==
    [set     |-> TRUE,
     path    |-> s.uri,
     runtime |-> s.createRuntime,
     isImage |-> s.config.packageType = "Image"]

\* activationReloadState.setSamInitState({...}); await addFolderToWorkspace(...)
PersistAndAddFolder(s) ==
    Await([s EXCEPT !.stateWrite = "set"], "addFolderToWorkspace")

\* getMainUri(config), fileExists resolved (lines 391-406): the uri of
\* README.md, or a warning and undefined (the empty uri).
getMainUri(s, readmeExists) ==
    Settled(IF readmeExists
            THEN [s EXCEPT !.uri = s.config.location \o <<s.config.name, "README.md">>]
            ELSE [Notify(s, "warning", "initWizard.source.error.notFound", FALSE)
                     EXCEPT !.uri = <<>>],
            "getMainUri")

\* A plausible slip: the resume state is persisted before the schema download.
MainUriResolvedPersistsFirst(s) ==
    IF s.uri = <<>>
    THEN Return([s EXCEPT !.reason = "fileNotFound"])
    ELSE IF s.config.template = eventBridgeStarterAppTemplate
         THEN Await([s EXCEPT !.stateWrite = "set"], "downloadCode")
         ELSE PersistAndAddFolder(s)

\* await getMainUri(config) is over (lines 261-295): README.md found or not
MainUriResolved(s) ==
    IF s.uri = <<>>
    THEN Return([s EXCEPT !.reason = "fileNotFound"])
    ELSE IF s.config.template = eventBridgeStarterAppTemplate
         THEN Await(s, "downloadCode")
         ELSE PersistAndAddFolder(s)

\* downloadCode resolved (lines 288-310)
CodeDownloaded(s) ==
    PersistAndAddFolder(Notify(s, "info", "schemas.downloadCodeBindings.finished", FALSE))

\* A plausible slip: the reconciler is called without waiting for the registry.
FolderAddedSkipsPoll(s) ==
    Await([s EXCEPT !.recon = ReconStart(s.config.location, s.uri, s.createRuntime)],
          "addInitialLaunchConfiguration")

\* addFolderToWorkspace resolved; waitUntil starts polling (line 314)
FolderAdded(s) == Await([s EXCEPT !.pollElapsed = 0], "waitUntil")

\* A plausible slip: the resume state is left in place on the way to the document.
OpenDocumentKeepsState(s) == Await(s, "openDocument")

\* activationReloadState.clearSamInitState(); then the document is opened (lines 353-355)
OpenDocument(s) == Await([s EXCEPT !.stateWrite = "clear"], "openDocument")

\* A plausible slip: the timeout is reported like a completed run.
PollTimedOutAsComplete(s) ==
    OpenDocument([Notify(s, "warning", "initWizard.launchConfigFail", TRUE)
                     EXCEPT !.reason = "complete"])

\* else { createResult = 'Failed'; reason = 'fileNotFound'; showWarningMessage(...) }
PollTimedOut(s) ==
    OpenDocument([Notify(s, "warning", "initWizard.launchConfigFail", TRUE)
                     EXCEPT !.createResult = "Failed",
                            !.reason       = "fileNotFound"])

\* if (isTemplateRegistered) { await addInitialLaunchConfiguration(...) }
TemplateRegistered(s) ==
    Await([s EXCEPT !.recon = ReconStart(s.config.location, s.uri, s.createRuntime)],
          "addInitialLaunchConfiguration")

\* One lookup of the registry by waitUntil, `async () => getRegisteredItem(uri)`:
\* the item ends the poll, undefined ends it once the timeout is used up and
\* is followed by another lookup an interval later otherwise.
Polled(s, found) ==
    IF found THEN Settled([s EXCEPT !.pollOutcome = "registered"], "waitUntil")
    ELSE IF s.pollElapsed >= PollTimeout
         THEN Settled([s EXCEPT !.pollOutcome = "timeout"], "waitUntil")
    ELSE [s EXCEPT !.pollElapsed = @ + PollInterval]

\* A plausible slip: the reconciler is called when the poll gave up, too.
WaitUntilReturnedIgnoresOutcome(s) == TemplateRegistered(s)

\* await waitUntil(...) is over (line 320): if (isTemplateRegistered) ... else ...
WaitUntilReturned(s) ==
    IF s.pollOutcome = "registered" THEN TemplateRegistered(s) ELSE PollTimedOut(s)

\* addInitialLaunchConfiguration returned (lines 327-330)
Reconciled(s) ==
    OpenDocument([(IF ~s.recon.returned.absent /\ Len(s.recon.returned.list) > 0
                   THEN Notify(s, "info", "initWizard.completionMessage", TRUE)
                   ELSE s)
                     EXCEPT !.reason = "complete"])

\* Where the caller is once an await of addInitialLaunchConfiguration is
\* over: the function went on to its next await, or it settled (it returned,
\* lines 416-439, or it threw) and the caller goes on in a later turn.
ReconOutcome(s) ==
    IF s.recon.phase \in {"threw", "returned"}
    THEN Settled(s, "addInitialLaunchConfiguration")
    ELSE s

\* await addInitialLaunchConfiguration(...) is over (lines 321-330): its
\* exception is thrown at the await, or the run goes on with what it returned.
LaunchConfigurationAdded(s) ==
    IF s.recon.phase = "threw" THEN Raise(s, "addInitialLaunchConfiguration")
    ELSE Reconciled(s)

-----------------------------------------------------------------------------
(* The actions of a run: the awaited call settles, and the code up to the   *)
(* next await (or through catch / finally) runs.                            *)

\* The step's write to the persisted resume state.
StateWritten(s, state) ==
    CASE s.stateWrite = "set"   -> SamInitStateOf(s)
      [] s.stateWrite = "clear" -> NoState
      [] OTHER                  -> state

Commit(r, s) ==
    LET left == Leave(s)
    IN  /\ run' = [run EXCEPT ![r] =
                      [left EXCEPT !.stateWrite = "keep",
                                   !.stateCalls = IF left.stateWrite = "keep" THEN @
                                                  ELSE Append(@, left.stateWrite)]]
        /\ samInitState' = StateWritten(left, samInitState)

At(r, step) == run[r].pc = step

\* A plausible slip: the command refuses to start while an invocation is in flight.
StartExclusive(r) ==
    /\ At(r, "idle")
    /\ \A q \in Runs \ {r} : run[q].pc \in {"idle", "done"}
    /\ Commit(r, Await(run[r], "validateSamCli"))
    /\ UNCHANGED <<workspaceFolders, projectsOnDisk, launchJson, rc, cli, client, resume>>

\* The command is invoked (lines 187-204): the function takes no lock, it
\* runs to its first await whatever the other invocation is doing.
Start(r) ==
    /\ At(r, "idle")
    /\ Commit(r, Await(run[r], "validateSamCli"))
    /\ UNCHANGED <<workspaceFolders, projectsOnDisk, launchJson, rc, cli, client, resume>>

\* A step whose awaited call rejected.
Rejected(r, step) ==
    /\ At(r, step)
    /\ Commit(r, Raise(run[r], step))
    /\ UNCHANGED <<workspaceFolders, projectsOnDisk, launchJson, rc, cli, client, resume>>

\* detectValidSamCli resolved inside validateSamCli.
ValidateSamCli(r) ==
    /\ At(r, "validateSamCli")
    /\ \E v \in ValidationResults :
          Commit(r, validateSamCli([run[r] EXCEPT !.cliValidation = v], v))
    /\ UNCHANGED <<workspaceFolders, projectsOnDisk, launchJson, rc, cli, client, resume>>

\* The run goes on after validateSamCli settled.
ValidateSamCliSettled(r) ==
    /\ At(r, "validateSamCli.settled")
    /\ Commit(r, SamCliValidated(run[r]))
    /\ UNCHANGED <<workspaceFolders, projectsOnDisk, launchJson, rc, cli, client, resume>>

GetCredentials(r) ==
    /\ At(r, "getCredentials")
    /\ Commit(r, Await(run[r], "getSamCliVersion"))
    /\ UNCHANGED <<workspaceFolders, projectsOnDisk, launchJson, rc, cli, client, resume>>

GetSamCliVersion(r) ==
    /\ At(r, "getSamCliVersion")
    /\ Commit(r, Await([run[r] EXCEPT !.samVersion = "1.0.0"], "wizard"))
    /\ UNCHANGED <<workspaceFolders, projectsOnDisk, launchJson, rc, cli, client, resume>>

Wizard(r) ==
    /\ At(r, "wizard")
    /\ \E answer \in WizardResponses \cup {NoConfig} :
          Commit(r, WizardAnswered([run[r] EXCEPT !.wizardAnswer =
                                       IF answer.defined THEN "config" ELSE "undefined"],
                                   answer))
    /\ UNCHANGED <<workspaceFolders, projectsOnDisk, launchJson, rc, cli, client, resume>>

BuildSchemaTemplateParameters(r) ==
    /\ At(r, "buildSchemaTemplateParameters")
    /\ Commit(r, SchemaParametersBuilt(run[r]))
    /\ UNCHANGED <<workspaceFolders, projectsOnDisk, launchJson, rc, cli, client, resume>>

RunSamCliInit(r) ==
    /\ At(r, "runSamCliInit")
    /\ \E v \in ValidationResults, result \in ProcessResults :
          LET s == runSamCliInit([run[r] EXCEPT !.initValidation = v], v, result)
          IN  /\ Commit(r, s)
              /\ projectsOnDisk' = IF ~s.helperThrew
                                   THEN projectsOnDisk \cup {run[r].config.name}
                                   ELSE projectsOnDisk
    /\ UNCHANGED <<workspaceFolders, launchJson, rc, cli, client, resume>>

\* The run goes on after runSamCliInit settled.
RunSamCliInitSettled(r) ==
    /\ At(r, "runSamCliInit.settled")
    /\ Commit(r, SamCliInitReturned(run[r]))
    /\ UNCHANGED <<workspaceFolders, projectsOnDisk, launchJson, rc, cli, client, resume>>

\* fileExists resolved inside getMainUri.
GetMainUri(r) ==
    /\ At(r, "getMainUri")
    /\ \E readmeExists \in BOOLEAN : Commit(r, getMainUri(run[r], readmeExists))
    /\ UNCHANGED <<workspaceFolders, projectsOnDisk, launchJson, rc, cli, client, resume>>

\* The run goes on after getMainUri settled.
GetMainUriSettled(r) ==
    /\ At(r, "getMainUri.settled")
    /\ Commit(r, MainUriResolved(run[r]))
    /\ UNCHANGED <<workspaceFolders, projectsOnDisk, launchJson, rc, cli, client, resume>>

DownloadCode(r) ==
    /\ At(r, "downloadCode")
    /\ Commit(r, CodeDownloaded(run[r]))
    /\ UNCHANGED <<workspaceFolders, projectsOnDisk, launchJson, rc, cli, client, resume>>

AddFolderToWorkspace(r) ==
    /\ At(r, "addFolderToWorkspace")
    /\ Commit(r, FolderAdded(run[r]))
    /\ workspaceFolders' = workspaceFolders \cup {run[r].config.location}
    /\ UNCHANGED <<projectsOnDisk, launchJson, rc, cli, client, resume>>

WaitUntil(r) ==
    /\ At(r, "waitUntil")
    /\ \E found \in BOOLEAN :
          Commit(r, Polled([run[r] EXCEPT !.pollLookups = @ + 1,
                                          !.pollFound   = @ \/ found],
                           found))
    /\ UNCHANGED <<workspaceFolders, projectsOnDisk, launchJson, rc, cli, client, resume>>

\* The run goes on after waitUntil settled.
WaitUntilSettled(r) ==
    /\ At(r, "waitUntil.settled")
    /\ Commit(r, WaitUntilReturned(run[r]))
    /\ UNCHANGED <<workspaceFolders, projectsOnDisk, launchJson, rc, cli, client, resume>>

Cfg(name, target, lambda) == [name |-> name, invokeTarget |-> target, lambda |-> lambda]

\* What SamDebugConfigProvider can answer with inside a run.
RunProviderAnswers ==
    LET readme   == Cfg("app:README", TemplateTarget(<<WorkspaceFolderVar, AppName, "README.md">>), NoLambda)
        resource == Cfg("app:HelloWorldFunction",
                        TemplateTarget(<<WorkspaceFolderVar, AppName, "template.yaml">>), NoLambda)
    IN  { NoConfigurations, Configurations(<<resource>>), Configurations(<<resource, readme>>) }

\* addInitialLaunchConfiguration, first await: provideDebugConfigurations resolved (line 415)
ProvideDebugConfigurations(r) ==
    /\ At(r, "addInitialLaunchConfiguration")
    /\ run[r].recon.phase = "provide"
    /\ \E out \in RunProviderAnswers :
          Commit(r, ReconOutcome([run[r] EXCEPT !.recon = ReconProvided(@, out, launchJson)]))
    /\ UNCHANGED <<workspaceFolders, projectsOnDisk, launchJson, rc, cli, client, resume>>

ProvideDebugConfigurationsRejected(r) ==
    /\ At(r, "addInitialLaunchConfiguration")
    /\ run[r].recon.phase = "provide"
    /\ Commit(r, ReconOutcome([run[r] EXCEPT !.recon = ReconProviderFailed(@)]))
    /\ UNCHANGED <<workspaceFolders, projectsOnDisk, launchJson, rc, cli, client, resume>>

\* addInitialLaunchConfiguration, second await: addDebugConfigurations resolved (line 438)
AddDebugConfigurations(r) ==
    /\ At(r, "addInitialLaunchConfiguration")
    /\ run[r].recon.phase = "persist"
    /\ Commit(r, ReconOutcome([run[r] EXCEPT !.recon = ReconPersisted(@)]))
    /\ launchJson' = LaunchJsonWritten(run[r].recon)
    /\ UNCHANGED <<workspaceFolders, projectsOnDisk, rc, cli, client, resume>>

AddDebugConfigurationsRejected(r) ==
    /\ At(r, "addInitialLaunchConfiguration")
    /\ run[r].recon.phase = "persist"
    /\ Commit(r, ReconOutcome([run[r] EXCEPT !.recon = ReconPersistFailed(@),
                                             !.persistRejected = TRUE]))
    /\ UNCHANGED <<workspaceFolders, projectsOnDisk, launchJson, rc, cli, client, resume>>

\* The run goes on after addInitialLaunchConfiguration settled.
AddInitialLaunchConfigurationSettled(r) ==
    /\ At(r, "addInitialLaunchConfiguration.settled")
    /\ Commit(r, LaunchConfigurationAdded(run[r]))
    /\ UNCHANGED <<workspaceFolders, projectsOnDisk, launchJson, rc, cli, client, resume>>

\* The document was opened: the try block is over (line 355).
DocumentOpened(r) ==
    /\ At(r, "openDocument")
    /\ Commit(r, Return(run[r]))
    /\ UNCHANGED <<workspaceFolders, projectsOnDisk, launchJson, rc, cli, client, resume>>

\* The awaited calls that can reject on their own.
RejectingSteps ==
    { "validateSamCli", "getCredentials", "getSamCliVersion", "wizard",
      "buildSchemaTemplateParameters", "runSamCliInit", "getMainUri", "downloadCode",
      "addFolderToWorkspace", "waitUntil", "openDocument" }

RunStep(r) ==
    \/ \E step \in RejectingSteps : Rejected(r, step)
    \/ ValidateSamCli(r)
    \/ ValidateSamCliSettled(r)
    \/ GetCredentials(r)
    \/ GetSamCliVersion(r)
    \/ Wizard(r)
    \/ BuildSchemaTemplateParameters(r)
    \/ RunSamCliInit(r)
    \/ RunSamCliInitSettled(r)
    \/ GetMainUri(r)
    \/ GetMainUriSettled(r)
    \/ DownloadCode(r)
    \/ AddFolderToWorkspace(r)
    \/ WaitUntil(r)
    \/ WaitUntilSettled(r)
    \/ ProvideDebugConfigurationsRejected(r)
    \/ ProvideDebugConfigurations(r)
    \/ AddDebugConfigurationsRejected(r)
    \/ AddDebugConfigurations(r)
    \/ AddInitialLaunchConfigurationSettled(r)
    \/ DocumentOpened(r)

-----------------------------------------------------------------------------
(* resumeCreateNewSamApp: the continuation of the command after the window  *)
(* was reloaded by the workspace-folder add.                                *)

\* vscode.workspace.getWorkspaceFolder(uri): the folder that holds uri, or undefined.
NoFolder == [found |-> FALSE, path |-> <<>>]

IsPrefix(p, q) == Len(p) <= Len(q) /\ SubSeq(q, 1, Len(p)) = p

getWorkspaceFolder(folders, uri) ==
    LET holding == { f \in folders : IsPrefix(f, uri) }
    IN  IF holding = {} THEN NoFolder
        ELSE [found |-> TRUE,
              path  |-> CHOOSE f \in holding : \A g \in holding : Len(g) <= Len(f)]

\* samInitState?.path, samInitState?.runtime, samInitState?.isImage
StatePath(state)    == IF state.set THEN state.path ELSE <<>>
StateRuntime(state) == IF state.set THEN state.runtime ELSE Undefined
StateIsImage(state) == state.set /\ state.isImage

\* The locals at the top of the function (lines 119-122); pc "idle" is a
\* call that was not made yet.
ResumeStarted(state) ==
    [pc            |-> "getWorkspaceFolder",
     createResult  |-> "Succeeded",
     reason        |-> "complete",
     samVersion    |-> Undefined,
     samInitState  |-> state,
     folder        |-> NoFolder,
     recon         |-> ReconStart(<<>>, <<>>, Undefined),
     stateWrite    |-> "keep",
     \* what an observer of the call sees
     called        |-> <<>>,       \* the awaited calls, in order
     threw         |-> "none",     \* the step whose exception reached the catch
     clears        |-> 0,          \* clearSamInitState calls
     clearsAtRecord |-> <<>>,      \* clearSamInitState calls made before each recordSamInit
     records       |-> <<>>,       \* recordSamInit calls
     channelErrors |-> 0,
     logErrors     |-> 0,
     channelShown  |-> FALSE,
     notifications |-> <<>>]

ResumeIdle == [ResumeStarted(NoState) EXCEPT !.pc = "idle"]

\* catch (err) { ... }  (lines 150-165)
ResumeCatch(s) ==
    [s EXCEPT !.createResult  = "Failed",
              !.reason        = "error",
              !.channelShown  = TRUE,
              !.channelErrors = @ + 1,
              !.logErrors     = @ + 1]

\* A plausible slip: the outcome is recorded before the state is cleared.
ResumeFinallyRecordsFirst(s) ==
    [s EXCEPT !.pc = "done",
              !.stateWrite = "clear",
              !.clears = @ + 1,
              !.clearsAtRecord = Append(@, s.clears),
              !.records = Append(@, [lambdaPackageType |-> IF StateIsImage(s.samInitState)
                                                           THEN "Image" ELSE "Zip",
                                     result  |-> s.createResult,
                                     reason  |-> s.reason,
                                     runtime |-> StateRuntime(s.samInitState),
                                     version |-> s.samVersion])]

\* finally { clearSamInitState(); recordSamInit({...}) }  (lines 166-175)
ResumeFinally(s) ==
    [s EXCEPT !.pc = "done",
              !.stateWrite = "clear",
              !.clears = @ + 1,
              !.clearsAtRecord = Append(@, s.clears + 1),
              !.records = Append(@, [lambdaPackageType |-> IF StateIsImage(s.samInitState)
                                                           THEN "Image" ELSE "Zip",
                                     result  |-> s.createResult,
                                     reason  |-> s.reason,
                                     runtime |-> StateRuntime(s.samInitState),
                                     version |-> s.samVersion])]

\* How a step leaves the try block (see Leave).
ResumeLeave(s) ==
    IF s.threw # "none" THEN ResumeFinally(ResumeCatch(s))
    ELSE IF s.pc = "return" THEN ResumeFinally(s)
    ELSE s

\* A plausible slip: a missing folder is reported but the outcome left alone.
ResumeFolderLookedUpKeepsOutcome(s, folder) ==
    IF ~folder.found
    THEN Return(Notify(s, "error", "initWizard.source.error.notInWorkspace", FALSE))
    ELSE Await([s EXCEPT !.folder = folder], "getSamCliVersion")

\* const folder = vscode.workspace.getWorkspaceFolder(uri)  (lines 124-139)
ResumeFolderLookedUp(s, folder) ==
    IF ~folder.found
    THEN Return([Notify(s, "error", "initWizard.source.error.notInWorkspace", FALSE)
                    EXCEPT !.createResult = "Failed",
                           !.reason       = "error"])
    ELSE Await([s EXCEPT !.folder = folder], "getSamCliVersion")

\* A plausible slip: the persisted runtime is passed for Zip projects too.
ResumeVersionReadRuntimeAlways(s, v) ==
    Await([s EXCEPT !.samVersion = v,
                    !.recon = ReconStart(s.folder.path, StatePath(s.samInitState),
                                         StateRuntime(s.samInitState))],
          "addInitialLaunchConfiguration")

\* samVersion = await getSamCliVersion(...); await addInitialLaunchConfiguration(...)
\* (lines 141-148)
ResumeVersionRead(s, v) ==
    Await([s EXCEPT !.samVersion = v,
                    !.recon = ReconStart(s.folder.path, StatePath(s.samInitState),
                                         IF StateIsImage(s.samInitState)
                                         THEN StateRuntime(s.samInitState)
                                         ELSE Undefined)],
          "addInitialLaunchConfiguration")

\* await addInitialLaunchConfiguration(...) is over (lines 143-149): its
\* exception is thrown at the await, or the document is opened:
\* await vscode.window.showTextDocument(uri)
ResumeLaunchConfigurationAdded(s) ==
    IF s.recon.phase = "threw" THEN Raise(s, "addInitialLaunchConfiguration")
    ELSE Await(s, "showTextDocument")

-----------------------------------------------------------------------------
(* DefaultAWSClientBuilder.createAndConfigureServiceClient.                 *)

\* An optional string: absent, or the sequence of its pieces ('' is <<>>).
NoString == [defined |-> FALSE, value |-> <<>>]
String(pieces) == [defined |-> TRUE, value |-> pieces]

\* !x for an optional string: undefined and '' are falsy
Falsy(x) == ~x.defined \/ x.value = <<>>

\* The characters /\s/ matches, by code point name: tab, line feed, vertical
\* tab, form feed, carriage return, space, no-break space, and the Unicode
\* space separators, line and paragraph separators and the byte order mark.
WhitespaceCodePoints ==
    { "U+0009", "U+000A", "U+000B", "U+000C", "U+000D", "U+0020", "U+00A0", "U+1680",
      "U+2000", "U+2001", "U+2002", "U+2003", "U+2004", "U+2005", "U+2006", "U+2007",
      "U+2008", "U+2009", "U+200A", "U+2028", "U+2029", "U+202F", "U+205F", "U+3000",
      "U+FEFF" }

\* The pieces that are one whitespace character.
Whitespace == {" ", "\t", "\n", "\r", "\f"} \cup WhitespaceCodePoints

\* A plausible slip: only the first whitespace character is replaced (no g flag).
ReplaceFirstWhitespace(name) ==
    IF \E k \in DOMAIN name : name[k] \in Whitespace
    THEN LET first == CHOOSE k \in DOMAIN name :
                         /\ name[k] \in Whitespace
                         /\ \A j \in 1..(k - 1) : name[j] \notin Whitespace
         IN  [name EXCEPT ![first] = "-"]
    ELSE name

\* env.appName.replace(/\s/g, '-')  (line 49)
ReplaceWhitespace(name) ==
    [k \in DOMAIN name |-> IF name[k] \in Whitespace THEN "-" ELSE name[k]]

pluginVersion == "1.0.0"     \* extensionUtilities.pluginVersion
version       == "1.50.0"    \* vscode.version

\* `AWS-Toolkit-For-VSCode/${pluginVersion} ${platformName}/${version}`  (line 50)
UserAgent(appName) ==
    <<"AWS-Toolkit-For-VSCode", "/", pluginVersion, " ">>
    \o ReplaceWhitespace(appName) \o <<"/", version>>

\* if (!awsServiceOpts) { awsServiceOpts = {} }  (lines 36-38)
NoOptions ==
    [credentials |-> NoString, region |-> NoString,
     customUserAgent |-> NoString, endpoint |-> NoString]

\* One call: the arguments, the environment it reads, and what the factory got.
ClientCall(opts, region, addUserAgent, appName, endpointSetting) ==
    [phase           |-> "called",
     given           |-> opts,
     region          |-> region,
     addUserAgent    |-> addUserAgent,
     appName         |-> appName,
     endpointSetting |-> endpointSetting,
     factoryCalls    |-> 0,
     passed          |-> NoOptions]

ClientIdle ==
    [ClientCall(NoOptions, NoString, TRUE, <<>>, NoString) EXCEPT !.phase = "idle"]

\* if (!awsServiceOpts.customUserAgent && addUserAgent) {...}  (lines 48-51)
WithUserAgent(c, opts) ==
    IF Falsy(opts.customUserAgent) /\ c.addUserAgent
    THEN [opts EXCEPT !.customUserAgent = String(UserAgent(c.appName))]
    ELSE opts

\* if (!awsServiceOpts.region && region) {...}  (lines 44-46)
WithRegion(c, opts) ==
    IF Falsy(opts.region) /\ ~Falsy(c.region)
    THEN [opts EXCEPT !.region = c.region]
    ELSE opts

\* var endpoint = ...get<string>('endpoint'); if (endpoint) ...  (lines 53-55)
WithEndpoint(c, opts) ==
    IF ~Falsy(c.endpointSetting)
    THEN [opts EXCEPT !.endpoint = c.endpointSetting]
    ELSE opts

\* Lines 44-56, with the options as they are once the credentials are in.
Configured(c, opts) ==
    [c EXCEPT !.phase        = "returned",
              !.factoryCalls = @ + 1,
              !.passed       = WithEndpoint(c, WithUserAgent(c, WithRegion(c, opts)))]

\* Lines 36-43 up to the first suspension: the credentials are awaited only
\* when the caller passed none.
ClientStarted(c) ==
    IF Falsy(c.given.credentials)
    THEN [c EXCEPT !.phase = "getCredentials"]
    ELSE Configured(c, c.given)

\* await this._awsContext.getCredentials() resolved  (line 41)
CredentialsResolved(c, credentials) ==
    Configured(c, [c.given EXCEPT !.credentials = credentials])

\* await this._awsContext.getCredentials() rejected: the call rejects.
CredentialsRejected(c) == [c EXCEPT !.phase = "threw"]

RcIdle == [ReconStart(<<>>, <<>>, Undefined) EXCEPT !.phase = "idle"]

Init ==
    /\ run = [r \in Runs |-> InitRun]
    /\ samInitState = NoState
    /\ workspaceFolders = {}
    /\ projectsOnDisk = {}
    /\ launchJson = <<>>
    /\ rc = RcIdle
    /\ cli = CliIdle
    /\ client = ClientIdle
    /\ resume = ResumeIdle

Next == \E r \in Runs : Start(r) \/ RunStep(r)

Spec == Init /\ [][Next]_vars

\* What the user answers the wizard of the second invocation with.
OtherWizardResponse ==
    [defined |-> TRUE, name |-> AppName, location |-> Location,
     runtime |-> "python3.8", packageType |-> "Zip", template |-> helloWorldTemplate]

\* The environment of the second invocation: its wizard is cancelled or
\* answered with OtherWizardResponse, and the registry has its template at
\* the first lookup or not before the poll gives up.  Every other input is
\* as in Spec.
MainInputs(r, s) ==
    r # 1 => /\ s.config.defined => s.config = OtherWizardResponse
             /\ s.pollFound => s.pollLookups = 1

MainStep(r) == RunStep(r) /\ MainInputs(r, run'[r])

\* Two invocations of the command, started at any time and in any order.
NextMain == \E r \in Runs : Start(r) \/ MainStep(r)

SpecMain == Init /\ [][NextMain]_vars

\* Every awaited call settles (resolves or rejects), and the event loop then
\* runs the continuation of the run that awaited it.
FairSpecMain == SpecMain /\ \A r \in Runs : WF_vars(MainStep(r))

-----------------------------------------------------------------------------
(* addInitialLaunchConfiguration on its own, called with every input of a   *)
(* bounded set.                                                             *)

MaxConfigs == 2

SomeLambda == [defined |-> TRUE, runtime |-> "dotnetcore3.1", memoryMb |-> 128]

TestFolder == <<"", "w">>

TestTargets == { <<"", "w", "test.yaml">>, <<"", "w", "thisAintIt.yaml">> }

TestConfigs ==
    { Cfg("name", t, l) :
        t \in { TemplateTarget(<<WorkspaceFolderVar, "test.yaml">>),
                TemplateTarget(<<"", "w", "other.yaml">>),
                TemplateTarget(<<"sub", "..", "Test.yaml">>),
                ApiTarget(<<WorkspaceFolderVar, "test.yaml">>),
                CodeTarget },
        l \in { NoLambda, SomeLambda } }

TestProviderAnswers ==
    {NoConfigurations} \cup
    { Configurations(l) : l \in UNION { [1..n -> TestConfigs] : n \in 0..MaxConfigs } }

InitRecon ==
    /\ run = [r \in Runs |-> InitRun]
    /\ samInitState = NoState
    /\ workspaceFolders = {}
    /\ projectsOnDisk = {}
    /\ launchJson = <<>>
    /\ cli = CliIdle
    /\ client = ClientIdle
    /\ resume = ResumeIdle
    /\ \E target \in TestTargets, runtime \in Runtimes \cup {Undefined} :
          rc = ReconStart(TestFolder, target, runtime)

RcProvide ==
    /\ rc.phase = "provide"
    /\ \E out \in TestProviderAnswers : rc' = ReconProvided(rc, out, launchJson)
    /\ UNCHANGED <<run, samInitState, workspaceFolders, projectsOnDisk, launchJson, cli, client, resume>>

RcProvideRejected ==
    /\ rc.phase = "provide"
    /\ rc' = ReconProviderFailed(rc)
    /\ UNCHANGED <<run, samInitState, workspaceFolders, projectsOnDisk, launchJson, cli, client, resume>>

RcPersist ==
    /\ rc.phase = "persist"
    /\ rc' = ReconPersisted(rc)
    /\ launchJson' = LaunchJsonWritten(rc)
    /\ UNCHANGED <<run, samInitState, workspaceFolders, projectsOnDisk, cli, client, resume>>

RcPersistRejected ==
    /\ rc.phase = "persist"
    /\ rc' = ReconPersistFailed(rc)
    /\ UNCHANGED <<run, samInitState, workspaceFolders, projectsOnDisk, launchJson, cli, client, resume>>

NextRecon == RcProvide \/ RcProvideRejected \/ RcPersist \/ RcPersistRejected

SpecRecon == InitRecon /\ [][NextRecon]_vars

-----------------------------------------------------------------------------
(* The SAM CLI wrappers on their own: logAndThrowIfUnexpectedExitCode,      *)
(* runSamCliInit and runSamCliPackage, called with every input of a bounded *)
(* set.                                                                     *)

MaxValueLen == 2

ExpectedCodes == {0, 123, 456}

TestProcessResults ==
    [exitCode : {0, 1, 123}, error : {"none", "bad result"},
     stdout : {"", "stdout text"}, stderr : {"", "stderr text"}]
    \cup ProcessResults

\* What the stub invokers of the tests resolve with.
InvokerResults ==
    ProcessResults
    \cup { [exitCode |-> 123, error |-> "bad result",
            stdout |-> "stdout text", stderr |-> "stderr text"] }

\* A plain character, the quote, the backslash, a control character with a
\* short escape sequence and one without, a high and a low surrogate.
JsonChars == {"n", DQ, BS, "\n", "U+000B", "U+D83D", "U+DE00"}

StringsUpTo(n) == UNION { [1..k -> JsonChars] : k \in 0..n }

ContextKeys == << <<"AWS_Schema_name">>, <<"user_agent", DQ>> >>

\* Mappings over a subset of the keys.
TestMappings ==
    LET Values == StringsUpTo(MaxValueLen)
    IN  { <<>> }
        \cup { <<[key |-> ContextKeys[k], value |-> v]>> :
                  k \in DOMAIN ContextKeys, v \in Values }
        \cup { <<[key |-> ContextKeys[1], value |-> v], [key |-> ContextKeys[2], value |-> w]>> :
                  v \in Values, w \in StringsUpTo(1) }

TestLocation == <<"", "some", "path", "to", "code.js">>

\* The requests the callers build: a Zip request names a runtime and possibly
\* a template, an Image request names a base image and neither of them.
TestInitRequests ==
    LET Contents == {NoExtraContent} \cup { ExtraContent(m) : m \in TestMappings }
        Base(runtime, content) ==
            [built             |-> TRUE,
             name              |-> "qwerty",
             location          |-> TestLocation,
             dependencyManager |-> getDependencyManager(runtime),
             extraContent      |-> content,
             baseImage         |-> Undefined,
             runtime           |-> Undefined,
             template          |-> Undefined]
    IN  { [Base(rt, ec) EXCEPT !.runtime = rt, !.template = tp] :
             rt \in Runtimes, ec \in Contents, tp \in Templates \cup {Undefined} }
        \cup { [Base(rt, ec) EXCEPT !.baseImage = BaseImageOf(rt)] :
                  rt \in Runtimes, ec \in Contents }

TestPackageRequests ==
    [sourceTemplateFile : {"template", "template.yaml"},
     destinationTemplateFile : {"output"},
     region : {"region", "us-west-2"},
     s3Bucket : {"bucket"},
     ecrRepo : {Undefined, "ecrRepo"}]

InitCli ==
    /\ run = [r \in Runs |-> InitRun]
    /\ samInitState = NoState
    /\ workspaceFolders = {}
    /\ projectsOnDisk = {}
    /\ launchJson = <<>>
    /\ rc = RcIdle
    /\ client = ClientIdle
    /\ resume = ResumeIdle
    /\ \/ \E result \in TestProcessResults, expected \in ExpectedCodes :
             cli = CliStart("logAndThrowIfUnexpectedExitCode", NoInitArguments,
                            result, expected)
       \/ \E request \in TestInitRequests :
             cli = CliStart("runSamCliInit", request, NoResult, 0)
       \/ \E request \in TestPackageRequests :
             cli = CliStart("runSamCliPackage", request, NoResult, 0)

CliCheckExit ==
    /\ cli.phase = "called"
    /\ cli.fn = "logAndThrowIfUnexpectedExitCode"
    /\ cli' = CliReturned(logAndThrowIfUnexpectedExitCode(cli, cli.result, cli.expected))
    /\ UNCHANGED <<run, samInitState, workspaceFolders, projectsOnDisk, launchJson,
                   rc, client, resume>>

CliRunInit ==
    /\ cli.phase = "called"
    /\ cli.fn = "runSamCliInit"
    /\ \E v \in ValidationResults, result \in InvokerResults :
          cli' = SamCliInitCall(cli, v, result)
    /\ UNCHANGED <<run, samInitState, workspaceFolders, projectsOnDisk, launchJson,
                   rc, client, resume>>

CliRunPackage ==
    /\ cli.phase = "called"
    /\ cli.fn = "runSamCliPackage"
    /\ \E result \in InvokerResults : cli' = runSamCliPackage(cli, result)
    /\ UNCHANGED <<run, samInitState, workspaceFolders, projectsOnDisk, launchJson,
                   rc, client, resume>>

NextCli == CliCheckExit \/ CliRunInit \/ CliRunPackage

SpecCli == InitCli /\ [][NextCli]_vars

-----------------------------------------------------------------------------
(* createAndConfigureServiceClient on its own, called with every input of a *)
(* bounded set.                                                             *)

TestAppNames ==
    { <<"Code">>, <<"Visual", " ", "Studio", "\t", "Code">>, <<"A", "\n", "B">>,
      <<"Caf", "U+00E9", "U+00A0", "B", "U+2003", "\r", "U+000B", "U+FEFF">> }

TestOptions ==
    [credentials     : {NoString, String(<<"callerCredentials">>)},
     region          : {NoString, String(<<"us-east-1">>)},
     customUserAgent : {NoString, String(<<>>), String(<<"caller-agent">>)},
     endpoint        : {NoString, String(<<"http://caller">>)}]

TestEndpointSettings == {NoString, String(<<>>), String(<<"http://localhost:4566">>)}

InitClient ==
    /\ run = [r \in Runs |-> InitRun]
    /\ samInitState = NoState
    /\ workspaceFolders = {}
    /\ projectsOnDisk = {}
    /\ launchJson = <<>>
    /\ rc = RcIdle
    /\ cli = CliIdle
    /\ resume = ResumeIdle
    /\ \E opts \in TestOptions, region \in {NoString, String(<<"us-west-2">>)},
          addUserAgent \in BOOLEAN, appName \in TestAppNames,
          endpointSetting \in TestEndpointSettings :
          client = ClientCall(opts, region, addUserAgent, appName, endpointSetting)

ClientStart ==
    /\ client.phase = "called"
    /\ client' = ClientStarted(client)
    /\ UNCHANGED <<run, samInitState, workspaceFolders, projectsOnDisk, launchJson,
                   rc, cli, resume>>

ClientGetCredentials ==
    /\ client.phase = "getCredentials"
    /\ client' = CredentialsResolved(client, String(<<"contextCredentials">>))
    /\ UNCHANGED <<run, samInitState, workspaceFolders, projectsOnDisk, launchJson,
                   rc, cli, resume>>

ClientGetCredentialsRejected ==
    /\ client.phase = "getCredentials"
    /\ client' = CredentialsRejected(client)
    /\ UNCHANGED <<run, samInitState, workspaceFolders, projectsOnDisk, launchJson,
                   rc, cli, resume>>

NextClient == ClientStart \/ ClientGetCredentials \/ ClientGetCredentialsRejected

SpecClient == InitClient /\ [][NextClient]_vars

-----------------------------------------------------------------------------
(* Properties of createNewSamApplication.                                   *)

Has(seq, x) == \E k \in DOMAIN seq : seq[k] = x
Last(seq)   == seq[Len(seq)]
Done(r)     == run[r].pc = "done"
Outcome(r)  == run[r].records[1]

Results == {"Succeeded", "Failed", "Cancelled"}

Shown(r, kind, id) ==
    \E k \in DOMAIN run[r].notifications :
        run[r].notifications[k].kind = kind /\ run[r].notifications[k].id = id

ShownKind(r, kind) ==
    \E k \in DOMAIN run[r].notifications : run[r].notifications[k].kind = kind

\* C1: every invoked run ends, on every path, in one terminal state with
\* exactly one recordSamInit call, and that call is the last thing the run
\* does: nothing is recorded before the run is over, and a finished run never
\* changes again.
C1_OneOutcomeRecordedLast ==
    /\ [](\A r \in Runs :
            /\ Done(r) => Len(run[r].records) = 1 /\ Outcome(r).result \in Results
            /\ ~Done(r) => run[r].records = <<>>)
    /\ [][\A r \in Runs : Done(r) => run'[r] = run[r]]_vars
    /\ \A r \in Runs : (run[r].pc # "idle") ~> Done(r)

\* A run that ended through the exception handler after the poll had timed out.
C1_Witness ==
    \E r \in Runs :
        /\ Done(r) /\ run[r].threw = "openDocument" /\ run[r].pollOutcome = "timeout"
        /\ Len(run[r].records) = 1

\* C2: when a step throws, it is the last step the run invoked, a diagnostic
\* is logged, the error is shown in the output channel, and the one recorded
\* outcome is Failed / error.
C2_ThrowEndsRunFailedError ==
    \A r \in Runs :
        run[r].threw # "none" =>
            /\ Done(r)
            /\ Last(run[r].called) = run[r].threw
            /\ run[r].logErrors >= 1
            /\ run[r].channelErrors = 1 /\ run[r].channelShown
            /\ Len(run[r].records) = 1
            /\ Outcome(r).result = "Failed" /\ Outcome(r).reason = "error"

\* The schema download threw after sam init had succeeded.
C2_Witness ==
    \E r \in Runs :
        /\ run[r].threw = "downloadCode" /\ Done(r)
        /\ run[r].config.name \in projectsOnDisk

LaterSteps ==
    { "runSamCliInit", "downloadCode", "addFolderToWorkspace", "waitUntil",
      "addInitialLaunchConfiguration" }

\* C3: the outcome is Cancelled / userCancelled exactly when the wizard
\* returned no configuration, and then none of sam init, schema download,
\* workspace add, polling and reconciliation was invoked.
C3_CancelledOnlyFromWizard ==
    \A r \in Runs :
        /\ (run[r].createResult = "Cancelled") <=> (run[r].wizardAnswer = "undefined")
        /\ Done(r) =>
              ((Outcome(r).result = "Cancelled" /\ Outcome(r).reason = "userCancelled")
                  <=> run[r].wizardAnswer = "undefined")
        /\ run[r].wizardAnswer = "undefined" =>
              /\ Done(r) /\ Last(run[r].called) = "wizard"
              /\ \A step \in LaterSteps : ~Has(run[r].called, step)
              /\ run[r].invokerCalls = 0

\* The wizard was declined and the run is over.
C3_Witness ==
    \E r \in Runs :
        /\ Done(r) /\ run[r].wizardAnswer = "undefined"
        /\ Outcome(r).result = "Cancelled"

Invalid(v) == v \notin {"none", "valid"}

\* The run is over with result Failed, or the function that threw has
\* settled and the run is about to go on in its exception handler.
FailsAfter(r, step) ==
    \/ At(r, step \o ".settled") /\ run[r].helperThrew
    \/ Done(r) /\ Outcome(r).result = "Failed" /\ run[r].threw = step

\* C4: an invalid or missing CLI fails the run fast, in the workflow (the
\* wizard is never run) and in runSamCliInit: the process invoker is never
\* called, the validation is the last step the run invoked, and the run ends
\* Failed.
C4_InvalidCliFailsFast ==
    \A r \in Runs :
        /\ Invalid(run[r].cliValidation) =>
              /\ FailsAfter(r, "validateSamCli")
              /\ ~Has(run[r].called, "wizard")
              /\ Last(run[r].called) = "validateSamCli"
              /\ run[r].invokerCalls = 0
        /\ Invalid(run[r].initValidation) =>
              /\ FailsAfter(r, "runSamCliInit")
              /\ Last(run[r].called) = "runSamCliInit"
              /\ run[r].invokerCalls = 0

\* The CLI was reported missing at the first step of a run.
C4_Witness ==
    \E r \in Runs : run[r].cliValidation = "notFound" /\ Done(r)

TimedOut(r) == Done(r) /\ run[r].pollOutcome = "timeout"

TimeoutSideEffects(r) ==
    /\ Shown(r, "warning", "initWizard.launchConfigFail")
    /\ \A k \in DOMAIN run[r].notifications :
          run[r].notifications[k].id = "initWizard.launchConfigFail"
              => run[r].notifications[k].link
    /\ ~ShownKind(r, "error")
    /\ ~Has(run[r].called, "addInitialLaunchConfiguration")
    /\ run[r].config.name \in projectsOnDisk
    /\ run[r].config.location \in workspaceFolders

\* C5 as stated: after a poll timeout the recorded outcome is always
\* Failed / fileNotFound.
C5_AsStated ==
    \A r \in Runs :
        TimedOut(r) =>
            /\ Outcome(r).result = "Failed" /\ Outcome(r).reason = "fileNotFound"
            /\ TimeoutSideEffects(r)

\* C5, amended: after a poll timeout the recorded result is Failed and the
\* reason is fileNotFound, unless opening the document then throws, which
\* makes the reason error; a warning with a help link (no error message) is
\* shown, the reconciler is never invoked, and project and workspace folder
\* stay in place.
C5_TimeoutFailedNoRollback ==
    \A r \in Runs :
        TimedOut(r) =>
            /\ Outcome(r).result = "Failed"
            /\ Outcome(r).reason =
                  IF run[r].threw = "openDocument" THEN "error" ELSE "fileNotFound"
            /\ run[r].threw \in {"none", "openDocument"}
            /\ TimeoutSideEffects(r)

\* The poll timed out and the document was then opened.
C5_Witness ==
    \E r \in Runs :
        TimedOut(r) /\ run[r].threw = "none" /\ run[r].pollElapsed = PollTimeout

ReconciledEmpty(r) ==
    /\ run[r].pollOutcome = "registered"
    /\ run[r].recon.phase = "returned"
    /\ ~run[r].recon.returned.absent
    /\ run[r].recon.returned.list = <<>>

\* C6 as stated: an empty reconciliation shows a warning with a help link,
\* and the run, when nothing throws after it, is recorded Succeeded / complete.
C6_AsStated ==
    \A r \in Runs :
        (Done(r) /\ ReconciledEmpty(r) /\ run[r].threw = "none") =>
            /\ \E k \in DOMAIN run[r].notifications :
                  run[r].notifications[k].kind = "warning" /\ run[r].notifications[k].link
            /\ Outcome(r).result = "Succeeded" /\ Outcome(r).reason = "complete"

-----------------------------------------------------------------------------
(* Properties of addInitialLaunchConfiguration.                             *)

Increasing(list) == \A j, k \in DOMAIN list : j < k => list[j] < list[k]

\* C7: the returned list holds exactly the provider's configurations, in the
\* provider's order, whose target is template-typed and whose templatePath
\* path-equals the target (a ${workspaceFolder}/test.yaml entry matches
\* /w/test.yaml and not /w/thisAintIt.yaml); it is empty when none matches,
\* and absent only when the provider answered undefined.
C7_ReturnsMatchingConfigs ==
    rc.phase = "returned" =>
        /\ rc.returned.absent <=> ~rc.provided.yields
        /\ rc.provided.yields =>
              /\ Increasing(rc.returned.list)
              /\ \A i \in DOMAIN rc.provided.list :
                    InList(rc.returned.list, i) <=>
                        /\ rc.provided.list[i].invokeTarget.target = "template"
                        /\ areEqual(rc.folder,
                                    rc.provided.list[i].invokeTarget.templatePath,
                                    rc.target)
              /\ \A i \in DOMAIN rc.provided.list :
                    rc.provided.list[i].invokeTarget =
                            TemplateTarget(<<WorkspaceFolderVar, "test.yaml">>)
                        => (InList(rc.returned.list, i) <=> rc.target = <<"", "w", "test.yaml">>)
              /\ (\A i \in DOMAIN rc.provided.list :
                      ~MatchesTarget(rc.provided.list[i], rc.folder, rc.target))
                    => rc.returned.list = <<>>

\* Two configurations were provided, the placeholder path matched and the
\* other entry was filtered out.
C7_Witness ==
    /\ rc.phase = "returned" /\ rc.provided.yields
    /\ Len(rc.provided.list) = 2 /\ rc.returned.list = <<2>>
    /\ rc.provided.list[2].invokeTarget.templatePath = <<WorkspaceFolderVar, "test.yaml">>
    /\ rc.provided.list[1].invokeTarget.target = "api"

Stamped == rc.phase \in {"persist", "returned"} /\ rc.provided.yields

\* C8: with a runtime, every matched configuration ends with a lambda holder
\* whose runtime is the supplied value, the holder's other fields and the
\* rest of the configuration being kept; without a runtime nothing is
\* created or changed.
C8_RuntimeStamped ==
    Stamped =>
        /\ rc.runtime # Undefined =>
              \A k \in DOMAIN rc.filtered :
                  LET before == rc.provided.list[rc.filtered[k]]
                      after  == rc.objects[rc.filtered[k]]
                  IN  /\ after.lambda.defined
                      /\ after.lambda.runtime = rc.runtime
                      /\ before.lambda.defined =>
                            after.lambda = [before.lambda EXCEPT !.runtime = rc.runtime]
                      /\ ~before.lambda.defined =>
                            after.lambda = [defined |-> TRUE, runtime |-> rc.runtime]
                      /\ after.name = before.name
                      /\ after.invokeTarget = before.invokeTarget
        /\ rc.runtime = Undefined => rc.objects = rc.provided.list

\* A matched configuration that already had a holder was stamped.
C8_Witness ==
    /\ rc.phase = "returned" /\ rc.runtime = "python3.8"
    /\ \E k \in DOMAIN rc.filtered :
          /\ rc.provided.list[rc.filtered[k]].lambda = SomeLambda
          /\ rc.objects[rc.filtered[k]].lambda.runtime = "python3.8"

\* C9: when the provider yields configurations, addDebugConfigurations is
\* called exactly once, also for an empty list, with the configurations as
\* they are after stamping, and the list passed is the list returned.
C9_PersistsOnceWhatItReturns ==
    /\ rc.provided.yields =>
          /\ Len(rc.persistArgs) = 1
          /\ rc.persistArgs[1].list = rc.filtered
          /\ rc.persistArgs[1].values = ValuesOf(rc.objects, rc.filtered)
          /\ rc.runtime # Undefined =>
                \A k \in DOMAIN rc.persistArgs[1].values :
                    /\ rc.persistArgs[1].values[k].lambda.defined
                    /\ rc.persistArgs[1].values[k].lambda.runtime = rc.runtime
          /\ rc.phase = "returned" =>
                /\ ~rc.returned.absent
                /\ rc.returned.list = rc.persistArgs[1].list
                /\ ValuesOf(rc.objects, rc.returned.list) = rc.persistArgs[1].values
    /\ ~rc.provided.yields => rc.persistArgs = <<>>

\* An empty filtered list was persisted and returned.
C9_Witness ==
    /\ rc.phase = "returned" /\ rc.provided.yields
    /\ Len(rc.provided.list) = 2 /\ rc.filtered = <<>>
    /\ Len(rc.persistArgs) = 1 /\ rc.returned.list = <<>>

\* C10: a rejected addDebugConfigurations leaves addInitialLaunchConfiguration
\* as an exception (nothing is returned): the function has settled and its
\* caller, when it goes on, goes through the exception handler to the end of
\* the run, or the run is over, recorded Failed / error and not completed.
\* The document is never opened and no completion message is shown.
C10_PersistFailurePropagates ==
    \A r \in Runs :
        run[r].persistRejected =>
            /\ run[r].recon.phase = "threw" /\ run[r].recon.returned.absent
            /\ ~Has(run[r].called, "openDocument")
            /\ ~Shown(r, "info", "initWizard.completionMessage")
            /\ \/ /\ At(r, "addInitialLaunchConfiguration.settled")
                  /\ run[r].threw = "none"
                  /\ LET left == Leave(LaunchConfigurationAdded(run[r]))
                     IN  /\ left.pc = "done"
                         /\ left.threw = "addInitialLaunchConfiguration"
                         /\ Last(left.records).result = "Failed"
                         /\ Last(left.records).reason = "error"
               \/ /\ Done(r)
                  /\ run[r].threw = "addInitialLaunchConfiguration"
                  /\ Outcome(r).result = "Failed" /\ Outcome(r).reason = "error"

\* Persisting a non-empty list of matching configurations was rejected.
C10_Witness ==
    \E r \in Runs :
        /\ run[r].persistRejected /\ Done(r)
        /\ run[r].recon.filtered # <<>>

-----------------------------------------------------------------------------
(* Properties of the SAM CLI wrappers.                                      *)

CheckExitFn == "logAndThrowIfUnexpectedExitCode"
CliDone     == cli.phase \in {"returned", "raised"}

\* The positions of an entry in a sequence.
Positions(seq, x) == { k \in DOMAIN seq : seq[k] = x }

\* The argument vector holds `flag`, and holds `flag value` next to each other.
HasArg(args, flag) == \E k \in DOMAIN args : args[k].text = flag
HasFlagValue(args, flag, value) ==
    \E k \in 1..(Len(args) - 1) : args[k].text = flag /\ args[k + 1] = Arg(value)

\* JSON.parse of an object whose values are strings.
JsonFailed == [ok |-> FALSE, pairs |-> <<>>]

\* The piece that stands for the character with a code point name.
CharacterNamed(name) ==
    CASE name = "U+0009" -> "\t"
      [] name = "U+000A" -> "\n"
      [] name = "U+000C" -> "\f"
      [] name = "U+000D" -> "\r"
      [] name = "U+0020" -> " "
      [] OTHER           -> name

IsHexDigit(ch) == \E k \in DOMAIN HexDigits : ch \in {HexDigits[k], UpperHexDigits[k]}

UpperHex(ch) == UpperHexDigits[CHOOSE k \in DOMAIN HexDigits : ch \in {HexDigits[k], UpperHexDigits[k]}]

\* The character a short escape sequence stands for; "" for no escape sequence.
JsonUnescape(ch) ==
    CASE ch \in {DQ, BS, "/"} -> ch
      [] ch = "b" -> "U+0008"
      [] ch = "n" -> "\n"
      [] ch = "r" -> "\r"
      [] ch = "t" -> "\t"
      [] ch = "f" -> "\f"
      [] OTHER    -> ""

RECURSIVE JsonReadString(_, _, _)
JsonReadString(chars, i, acc) ==
    IF i > Len(chars) THEN [ok |-> FALSE, str |-> acc, next |-> i]
    ELSE IF chars[i] = DQ THEN [ok |-> TRUE, str |-> acc, next |-> i + 1]
    ELSE IF IsControlCharacter(chars[i])
         THEN [ok |-> FALSE, str |-> acc, next |-> i]     \* a raw control character
    ELSE IF chars[i] = BS
         THEN IF i + 1 > Len(chars) THEN [ok |-> FALSE, str |-> acc, next |-> i]
              ELSE IF chars[i + 1] = "u"
                   THEN IF i + 5 > Len(chars) \/ \E d \in 2..5 : ~IsHexDigit(chars[i + d])
                        THEN [ok |-> FALSE, str |-> acc, next |-> i]
                        ELSE JsonReadString(chars, i + 6,
                                 Append(acc, CharacterNamed(
                                     "U+" \o UpperHex(chars[i + 2]) \o UpperHex(chars[i + 3])
                                          \o UpperHex(chars[i + 4]) \o UpperHex(chars[i + 5]))))
              ELSE IF JsonUnescape(chars[i + 1]) = ""
                   THEN [ok |-> FALSE, str |-> acc, next |-> i]
                   ELSE JsonReadString(chars, i + 2, Append(acc, JsonUnescape(chars[i + 1])))
    ELSE JsonReadString(chars, i + 1, Append(acc, chars[i]))

RECURSIVE JsonReadMembers(_, _, _)
JsonReadMembers(chars, i, acc) ==
    IF i > Len(chars) THEN JsonFailed
    ELSE IF chars[i] = "}" THEN [ok |-> i = Len(chars), pairs |-> acc]
    ELSE IF chars[i] = "," /\ acc # <<>> THEN JsonReadMembers(chars, i + 1, acc)
    ELSE IF chars[i] # DQ THEN JsonFailed
    ELSE LET k == JsonReadString(chars, i + 1, <<>>)
         IN  IF ~k.ok \/ k.next + 1 > Len(chars) THEN JsonFailed
             ELSE IF chars[k.next] # ":" \/ chars[k.next + 1] # DQ THEN JsonFailed
             ELSE LET v == JsonReadString(chars, k.next + 2, <<>>)
                  IN  IF ~v.ok THEN JsonFailed
                      ELSE JsonReadMembers(chars, v.next,
                                           Append(acc, [key |-> k.str, value |-> v.str]))

JsonParse(chars) ==
    IF chars = <<>> \/ chars[1] # "{" THEN JsonFailed
    ELSE JsonReadMembers(chars, 2, <<>>)

\* A mapping as the set of its members (deep equality ignores their order).
Members(pairs) == { <<pairs[k].key, pairs[k].value>> : k \in DOMAIN pairs }

CarriesDiagnostic ==
    /\ cli.error.kind     = "UnexpectedExitCode"
    /\ cli.error.expected = cli.expected
    /\ cli.error.actual   = cli.result.exitCode
    /\ cli.error.stdout   = cli.result.stdout
    /\ cli.error.stderr   = cli.result.stderr

\* C11 as stated: the exit code validator returns whenever the exit code is
\* the expected code, whatever the expected code is (0, 123, 456), and raises
\* an UnexpectedExitCode carrying the expected code, the actual code, stdout
\* and stderr whenever the exit code differs from it.
C11_AsStated ==
    (cli.fn = CheckExitFn /\ CliDone) =>
        /\ (cli.result.exitCode = cli.expected) => cli.phase = "returned"
        /\ (cli.result.exitCode # cli.expected) => (cli.phase = "raised" /\ CarriesDiagnostic)

\* C11, amended: the exit code validator raises if and only if the result is
\* a mismatch, a result that holds a launch error being a mismatch whatever
\* its exit code: it returns exactly when the exit code is the expected code
\* (0, 123, 456) and the result holds no launch error, and otherwise raises
\* an UnexpectedExitCode carrying the expected code, the actual code, stdout
\* and stderr.
C11_RaisesIffMismatch ==
    (cli.fn = CheckExitFn /\ CliDone) =>
        /\ (cli.result.exitCode = cli.expected /\ cli.result.error = "none") =>
              cli.phase = "returned"
        /\ (cli.result.exitCode # cli.expected \/ cli.result.error # "none") =>
              (cli.phase = "raised" /\ CarriesDiagnostic)

\* A result with the expected exit code and a launch error made the validator raise.
C11_Witness ==
    /\ cli.fn = CheckExitFn
    /\ cli.phase = "raised"
    /\ cli.result.exitCode = 123
    /\ cli.expected = 123
    /\ cli.result.error = "bad result"
    /\ cli.error.actual = 123
    /\ cli.error.stderr = "stderr text"

WrapperDone == cli.fn \in {"runSamCliInit", "runSamCliPackage"} /\ CliDone

\* The one invocation decides the call: exit code 0 returns, any other exit
\* code is logged and raised, and nothing is invoked after it.
OneInvocationDecides ==
    /\ (cli.phase = "returned") <=> (cli.result.exitCode = 0)
    /\ (cli.result.exitCode # 0) =>
          /\ cli.trace = <<"invoke", "log", "raise">>
          /\ cli.error.kind = "UnexpectedExitCode"
          /\ Len(cli.log) = 1
          /\ cli.log[1].actual = cli.result.exitCode

\* C13 as stated: every call of runSamCliInit or runSamCliPackage invokes the
\* CLI exactly once, succeeds only when that invocation ended with exit code
\* 0, and otherwise logs the bad-exit diagnostic and raises without a second
\* invocation.
C13_AsStated ==
    WrapperDone =>
        /\ Len(cli.invocations) = 1
        /\ cli.invocations # <<>> => OneInvocationDecides

\* C13, amended: a call of runSamCliPackage, and a call of runSamCliInit
\* whose CLI validation passed, invokes the CLI exactly once, succeeds only
\* when that invocation ended with exit code 0, and otherwise logs the
\* bad-exit diagnostic and raises without a second invocation; a call of
\* runSamCliInit whose CLI validation failed raises without invoking the CLI.
C13_InvokesOnceNoRetry ==
    WrapperDone =>
        /\ (cli.fn = "runSamCliPackage" \/ cli.validation = "valid") =>
              (Len(cli.invocations) = 1 /\ OneInvocationDecides)
        /\ (cli.fn = "runSamCliInit" /\ cli.validation # "valid") =>
              /\ cli.invocations = <<>>
              /\ cli.phase = "raised"
              /\ cli.error.kind = "InvalidSamCli"
              /\ cli.log = <<>>

\* The one invocation of a validated runSamCliInit call ended with exit code 123.
C13_Witness ==
    /\ cli.fn = "runSamCliInit"
    /\ cli.validation = "valid"
    /\ cli.phase = "raised"
    /\ cli.result.exitCode = 123
    /\ Len(cli.invocations) = 1
    /\ Len(cli.log) = 1

\* C14: the invocation runSamCliInit makes starts with init, holds --name
\* <name>, --no-interactive and --dependency-manager <dependencyManager>, runs
\* in the request's location without naming it in an argument, and holds
\* --runtime <runtime> and no --base-image for a Zip request, --base-image
\* <image> and neither --runtime nor --app-template for an Image request.
C14_InitArguments ==
    (cli.fn = "runSamCliInit" /\ cli.invocations # <<>>) =>
        LET args == cli.invocations[1].args
            req  == cli.request
        IN  /\ args[1] = Arg("init")
            /\ HasFlagValue(args, "--name", req.name)
            /\ HasArg(args, "--no-interactive")
            /\ HasFlagValue(args, "--dependency-manager", req.dependencyManager)
            /\ cli.invocations[1].cwd = req.location
            /\ ~HasArg(args, "--location")
            /\ IF req.baseImage = Undefined
               THEN /\ HasFlagValue(args, "--runtime", req.runtime)
                    /\ ~HasArg(args, "--base-image")
               ELSE /\ HasFlagValue(args, "--base-image", req.baseImage)
                    /\ ~HasArg(args, "--runtime")
                    /\ ~HasArg(args, "--app-template")

C14_Witness ==
    /\ cli.fn = "runSamCliInit"
    /\ cli.invocations # <<>>
    /\ cli.request.baseImage = "amazon/python3.8-base"
    /\ HasFlagValue(cli.invocations[1].args, "--base-image", "amazon/python3.8-base")

\* C15: a flag whose value is optional is in the argument vector exactly when
\* the request holds its value: --app-template <mapped parameter> with a
\* template, --extra-context with an extra template context, --runtime with a
\* runtime, --base-image with a base image.
C15_FlagIffValue ==
    (cli.fn = "runSamCliInit" /\ cli.invocations # <<>>) =>
        LET args == cli.invocations[1].args
            req  == cli.request
        IN  /\ HasArg(args, "--app-template") <=> (req.template # Undefined)
            /\ (req.template = helloWorldTemplate) =>
                  HasFlagValue(args, "--app-template", "hello-world")
            /\ (req.template = eventBridgeStarterAppTemplate) =>
                  HasFlagValue(args, "--app-template", "eventBridge-schema-app")
            /\ HasArg(args, "--extra-context") <=> req.extraContent.defined
            /\ HasArg(args, "--runtime") <=> (req.runtime # Undefined)
            /\ HasArg(args, "--base-image") <=> (req.baseImage # Undefined)
            /\ \A k \in DOMAIN args : args[k] # Arg(Undefined)

C15_Witness ==
    /\ cli.fn = "runSamCliInit"
    /\ cli.invocations # <<>>
    /\ cli.request.runtime = "nodejs12.x"
    /\ cli.request.template = Undefined
    /\ ~cli.request.extraContent.defined
    /\ ~HasArg(cli.invocations[1].args, "--app-template")

\* C16: when the request holds an extra template context, the argument vector
\* holds --extra-context once, the next argument is the only JSON text of the
\* vector, and parsing that text gives the mapping of the request back.
C16_ExtraContextRoundTrip ==
    (cli.fn = "runSamCliInit" /\ cli.invocations # <<>> /\ cli.request.extraContent.defined) =>
        LET args  == cli.invocations[1].args
            flags == { k \in DOMAIN args : args[k].text = "--extra-context" }
        IN  /\ Cardinality(flags) = 1
            /\ \A k \in flags :
                  /\ k < Len(args)
                  /\ { j \in DOMAIN args : args[j].json # <<>> } = {k + 1}
                  /\ JsonParse(args[k + 1].json).ok
                  /\ Members(JsonParse(args[k + 1].json).pairs)
                        = Members(cli.request.extraContent.pairs)
                  /\ Len(JsonParse(args[k + 1].json).pairs)
                        = Len(cli.request.extraContent.pairs)

C16_Witness ==
    /\ cli.fn = "runSamCliInit"
    /\ cli.invocations # <<>>
    /\ cli.request.extraContent.defined
    /\ Len(cli.request.extraContent.pairs) = 2
    /\ cli.request.extraContent.pairs[1].value = <<"U+000B", "U+D83D">>
    /\ cli.request.extraContent.pairs[2].value = <<BS>>
    /\ \E k \in DOMAIN cli.invocations[1].args :
          cli.invocations[1].args[k].json =
              <<"{", DQ, "AWS_Schema_name", DQ, ":",
                     DQ, BS, "u", "0", "0", "0", "b", BS, "u", "d", "8", "3", "d", DQ, ",",
                     DQ, "user_agent", BS, DQ, DQ, ":", DQ, BS, BS, DQ, "}">>

\* C17: runSamCliPackage invokes the CLI once, with --template-file <source>,
\* --s3-bucket <bucket>, --output-template-file <destination> and --region
\* <region>, and with --image-repository <repo> exactly when the request holds
\* an ECR repository.
C17_PackageArguments ==
    (cli.fn = "runSamCliPackage" /\ CliDone) =>
        /\ Len(cli.invocations) = 1
        /\ LET args == cli.invocations[1].args
               req  == cli.request
           IN  /\ HasFlagValue(args, "--template-file", req.sourceTemplateFile)
               /\ HasFlagValue(args, "--s3-bucket", req.s3Bucket)
               /\ HasFlagValue(args, "--output-template-file", req.destinationTemplateFile)
               /\ HasFlagValue(args, "--region", req.region)
               /\ HasArg(args, "--image-repository") <=> (req.ecrRepo # Undefined)
               /\ (req.ecrRepo # Undefined) =>
                     HasFlagValue(args, "--image-repository", req.ecrRepo)

C17_Witness ==
    /\ cli.fn = "runSamCliPackage"
    /\ cli.phase = "returned"
    /\ cli.request.ecrRepo = "ecrRepo"
    /\ HasFlagValue(cli.invocations[1].args, "--image-repository", "ecrRepo")

-----------------------------------------------------------------------------
(* Properties of the schema download and of the order of the steps.         *)

\* No other invocation of the command was made.
Alone(r) == \A q \in Runs \ {r} : At(q, "idle")

\* C18: a failed schema download ends the run Failed with reason 'error',
\* with no workspace folder added, no registry poll, no reconciliation and no
\* resume state persisted; the download is started only for the EventBridge
\* starter template, after sam init succeeded and README.md was found.
C18_DownloadFailureIsFatal ==
    \A r \in Runs :
        /\ run[r].threw = "downloadCode" =>
              /\ Done(r)
              /\ Len(run[r].records) = 1
              /\ Outcome(r).result = "Failed" /\ Outcome(r).reason = "error"
              /\ ~Has(run[r].called, "addFolderToWorkspace")
              /\ ~Has(run[r].called, "waitUntil")
              /\ ~Has(run[r].called, "addInitialLaunchConfiguration")
              /\ Alone(r) => (workspaceFolders = {} /\ launchJson = <<>>)
        /\ (Alone(r) /\ Has(run[r].called, "downloadCode")
               /\ ~Has(run[r].called, "addFolderToWorkspace")) => samInitState = NoState
        /\ Has(run[r].called, "downloadCode") =>
              /\ run[r].config.template = eventBridgeStarterAppTemplate
              /\ run[r].initValidation = "valid"
              /\ run[r].invokerCalls = 1
              /\ run[r].config.name \in projectsOnDisk
              /\ run[r].uri = run[r].config.location \o <<run[r].config.name, "README.md">>
              /\ \E i, j, k \in DOMAIN run[r].called :
                    /\ i < j /\ j < k
                    /\ run[r].called[i] = "runSamCliInit"
                    /\ run[r].called[j] = "getMainUri"
                    /\ run[r].called[k] = "downloadCode"

C18_Witness ==
    \E r \in Runs :
        /\ run[r].threw = "downloadCode"
        /\ Done(r)
        /\ Outcome(r).reason = "error"
        /\ run[r].config.name \in projectsOnDisk
        /\ samInitState = NoState

\* The form `<ProductName>/<version> <platformName>/<platformVersion>`, the
\* platform name being the application name with its whitespace replaced.
IsUserAgentOf(agent, appName) ==
    /\ agent.defined
    /\ Len(agent.value) = Len(appName) + 6
    /\ SubSeq(agent.value, 1, 4) = <<"AWS-Toolkit-For-VSCode", "/", pluginVersion, " ">>
    /\ \A k \in DOMAIN appName :
          /\ agent.value[4 + k] \notin Whitespace
          /\ appName[k] \notin Whitespace => agent.value[4 + k] = appName[k]
    /\ SubSeq(agent.value, Len(appName) + 5, Len(appName) + 6) = <<"/", version>>

\* C19 as stated: the factory gets the generated user agent whenever the
\* caller's options set none, and the configured endpoint whenever the
\* aws.endpoint setting is present.
C19_AsStated ==
    (client.phase = "returned") =>
        /\ ~client.given.customUserAgent.defined =>
              IsUserAgentOf(client.passed.customUserAgent, client.appName)
        /\ client.endpointSetting.defined =>
              client.passed.endpoint = client.endpointSetting

\* C19: the factory is called once, with the generated user agent whenever
\* the caller's options hold no (non-empty) user agent and addUserAgent is
\* true, and with the configured endpoint whenever the aws.endpoint setting
\* is a non-empty string.
C19_UserAgentAndEndpoint ==
    (client.phase = "returned") =>
        /\ client.factoryCalls = 1
        /\ (Falsy(client.given.customUserAgent) /\ client.addUserAgent) =>
              IsUserAgentOf(client.passed.customUserAgent, client.appName)
        /\ (client.endpointSetting.defined /\ client.endpointSetting.value # <<>>) =>
              client.passed.endpoint = client.endpointSetting

C19_Witness ==
    /\ client.phase = "returned"
    /\ ~client.given.customUserAgent.defined
    /\ client.addUserAgent
    /\ client.appName = <<"Caf", "U+00E9", "U+00A0", "B", "U+2003", "\r", "U+000B", "U+FEFF">>
    /\ client.passed.customUserAgent.value =
          <<"AWS-Toolkit-For-VSCode", "/", pluginVersion, " ",
            "Caf", "U+00E9", "-", "B", "-", "-", "-", "-", "/", version>>
    /\ client.given.endpoint = String(<<"http://caller">>)
    /\ client.passed.endpoint = String(<<"http://localhost:4566">>)

\* The steps of a run in the order of the code.
StepOrder ==
    <<"validateSamCli", "getCredentials", "getSamCliVersion", "wizard",
      "buildSchemaTemplateParameters", "runSamCliInit", "getMainUri", "downloadCode",
      "addFolderToWorkspace", "waitUntil", "addInitialLaunchConfiguration",
      "openDocument">>

Range(seq) == { seq[k] : k \in DOMAIN seq }

RankOf(step) == CHOOSE k \in DOMAIN StepOrder : StepOrder[k] = step

\* `later` was started only after `earlier` had been.
After(r, later, earlier) ==
    Has(run[r].called, later) =>
        \E i, j \in DOMAIN run[r].called :
            i < j /\ run[r].called[i] = earlier /\ run[r].called[j] = later

\* C20: the steps of a run start in the order validate CLI, wizard, sam
\* init, schema download (EventBridge template only), workspace folder,
\* registry poll, reconciliation; a step starts only after the one before it
\* succeeded, and the run is inside at most one step at a time.
C20_StepsInStrictOrder ==
    \A r \in Runs :
        LET called == run[r].called
        IN  /\ \A k \in DOMAIN called : called[k] \in Range(StepOrder)
            /\ \A i, j \in DOMAIN called : i < j => RankOf(called[i]) < RankOf(called[j])
            /\ After(r, "wizard", "validateSamCli")
            /\ After(r, "runSamCliInit", "wizard")
            /\ After(r, "downloadCode", "runSamCliInit")
            /\ After(r, "addFolderToWorkspace", "runSamCliInit")
            /\ (run[r].config.defined
                   /\ run[r].config.template = eventBridgeStarterAppTemplate) =>
                  After(r, "addFolderToWorkspace", "downloadCode")
            /\ After(r, "waitUntil", "addFolderToWorkspace")
            /\ After(r, "addInitialLaunchConfiguration", "waitUntil")
            /\ Has(called, "wizard") => run[r].cliValidation = "valid"
            /\ Has(called, "runSamCliInit") => run[r].wizardAnswer = "config"
            /\ Has(called, "getMainUri") =>
                  (run[r].initValidation = "valid" /\ run[r].config.name \in projectsOnDisk)
            /\ Has(called, "waitUntil") => run[r].config.location \in workspaceFolders
            /\ Has(called, "addInitialLaunchConfiguration") =>
                  run[r].pollOutcome = "registered"
            /\ run[r].threw # "none" => Last(called) = run[r].threw
            /\ run[r].pc \in Range(StepOrder) => Last(called) = run[r].pc

C20_Witness ==
    \E r \in Runs :
        /\ Done(r)
        /\ run[r].threw = "none"
        /\ run[r].called =
              <<"validateSamCli", "getCredentials", "getSamCliVersion", "wizard",
                "buildSchemaTemplateParameters", "runSamCliInit", "getMainUri",
                "downloadCode", "addFolderToWorkspace", "waitUntil",
                "addInitialLaunchConfiguration", "openDocument">>

-----------------------------------------------------------------------------
(* Properties of the poll, of the recorded outcome and of the resume state. *)

\* The lookups waitUntil can make: one at the start and one per interval.
PollBound == PollTimeout \div PollInterval + 1

\* C21: the poll looks the registry up every 500 ms and gives up at 5000 ms,
\* so it makes a bounded number of lookups and always ends, the run going on
\* after it; it answers 'registered' only if a lookup returned the item, and
\* the reconciler is called only after a lookup returned the item and the
\* poll has settled.
C21_PollBounded ==
    /\ [](\A r \in Runs :
            /\ run[r].pollLookups <= PollBound
            /\ At(r, "waitUntil") =>
                  /\ run[r].pollElapsed = run[r].pollLookups * PollInterval
                  /\ run[r].pollElapsed <= PollTimeout
                  /\ ~run[r].pollFound
                  /\ run[r].pollOutcome = "none"
            /\ At(r, "waitUntil.settled") =>
                  /\ run[r].pollOutcome \in {"registered", "timeout"}
                  /\ run[r].pollLookups >= 1
                  /\ ~Has(run[r].called, "addInitialLaunchConfiguration")
            /\ run[r].pollOutcome = "registered" => run[r].pollFound
            /\ run[r].pollOutcome = "timeout" =>
                  (~run[r].pollFound /\ run[r].pollLookups = PollBound)
            /\ Has(run[r].called, "addInitialLaunchConfiguration") =>
                  (run[r].pollFound /\ run[r].pollOutcome = "registered"))
    /\ \A r \in Runs :
          At(r, "waitUntil") ~> (run[r].pc \notin {"waitUntil", "waitUntil.settled"})

C21_Witness ==
    \E r \in Runs :
        /\ run[r].pollOutcome = "registered"
        /\ run[r].pollLookups = PollBound
        /\ Has(run[r].called, "addInitialLaunchConfiguration")

Reasons == {"unknown", "userCancelled", "fileNotFound", "complete", "error"}

\* C22: the recorded event carries one reason, the last value assigned: when
\* the reason was set to 'complete' or 'fileNotFound' and opening the
\* document then throws, the event carries Failed / error.
C22_LastReasonWins ==
    \A r \in Runs :
        /\ Len(run[r].records) <= 1
        /\ Done(r) =>
              /\ Len(run[r].records) = 1
              /\ Outcome(r).reason \in Reasons
        /\ At(r, "openDocument") =>
              /\ run[r].pollOutcome = "registered" => run[r].reason = "complete"
              /\ run[r].pollOutcome = "timeout"    => run[r].reason = "fileNotFound"
              /\ run[r].pollOutcome \in {"registered", "timeout"}
        /\ (Done(r) /\ run[r].threw = "openDocument") =>
              (Outcome(r).result = "Failed" /\ Outcome(r).reason = "error")

C22_Witness ==
    \E r \in Runs :
        /\ Done(r)
        /\ run[r].threw = "openDocument"
        /\ run[r].pollOutcome = "registered"
        /\ run[r].recon.phase = "returned"
        /\ Outcome(r).reason = "error"

FatalPath(r) == Done(r) /\ run[r].threw # "none"

WarnedWithLink(r) ==
    /\ Shown(r, "warning", "initWizard.launchConfigFail")
    /\ \A k \in DOMAIN run[r].notifications :
          run[r].notifications[k].id = "initWizard.launchConfigFail"
              => run[r].notifications[k].link

NoErrorShown(r) == run[r].channelErrors = 0 /\ ~ShownKind(r, "error")

\* C24 as stated: every run that ends through the exception handler shows
\* one error message pointing to the logs (the message written to the output
\* channel, which is shown); the poll timeout and the empty reconciliation
\* each show a warning with a link and no error.
C24_AsStated ==
    \A r \in Runs :
        /\ FatalPath(r) => (run[r].channelErrors = 1 /\ run[r].channelShown)
        /\ (Done(r) /\ run[r].threw = "none" /\ run[r].pollOutcome = "timeout") =>
              (WarnedWithLink(r) /\ NoErrorShown(r))
        /\ (Done(r) /\ run[r].threw = "none" /\ ReconciledEmpty(r)) =>
              (WarnedWithLink(r) /\ NoErrorShown(r))

\* C26: the request passed to runSamCliInit has one shape: a runtime and no
\* base image (Zip, with or without a template), or a base image and neither
\* a runtime nor a template (Image).
C26_OneRequestShape ==
    \A r \in Runs :
        Has(run[r].called, "runSamCliInit") =>
            LET request == run[r].initArguments
            IN  \/ /\ run[r].config.packageType = "Zip"
                   /\ request.runtime = run[r].config.runtime
                   /\ request.runtime # Undefined
                   /\ request.baseImage = Undefined
                \/ /\ run[r].config.packageType = "Image"
                   /\ request.baseImage # Undefined
                   /\ request.runtime = Undefined
                   /\ request.template = Undefined

C26_Witness ==
    \E r \in Runs :
        /\ Has(run[r].called, "runSamCliInit")
        /\ run[r].config.packageType = "Image"
        /\ run[r].config.template = eventBridgeStarterAppTemplate
        /\ run[r].initArguments.baseImage = "amazon/nodejs12.x-base"
        /\ run[r].initArguments.extraContent.defined

\* The run that has started the workspace-folder add, if any.
Persisted(r) == Has(run[r].called, "addFolderToWorkspace")

\* The resume state is what run r persisted.
HoldsStateOf(r) == samInitState = SamInitStateOf(run[r])

\* C28 as stated: the resume state is the state the run persisted all the
\* time the run waits for addFolderToWorkspace; a run that persisted it ends
\* with the resume state cleared; a run that ends before persisting made no
\* call that writes the resume state.
C28_AsStated ==
    \A r \in Runs :
        /\ At(r, "addFolderToWorkspace") => HoldsStateOf(r)
        /\ (Done(r) /\ Persisted(r)) => samInitState = NoState
        /\ (Done(r) /\ ~Persisted(r)) => run[r].stateCalls = <<>>

\* `state` is what another invocation than r left: the state that one
\* persisted, or no state once that one has called clearSamInitState.
LeftByOther(r, state) ==
    \E q \in Runs \ {r} :
        IF state.set THEN Persisted(q) /\ state = SamInitStateOf(run[q])
        ELSE Has(run[q].stateCalls, "clear")

\* C28, amended: a run calls setSamInitState in the step that calls
\* addFolderToWorkspace, before the call, and makes no other call on the
\* resume state during it: the state stays what the run persisted all through
\* the call, up to what another invocation of the command writes meanwhile.
\* A run that persisted it calls clearSamInitState before it ends, on the
\* completed path, the poll timeout path and every exception path, so it
\* ends with the state cleared, or holding what another invocation has
\* persisted.  A run that ends before persisting never sets the state: it
\* makes no call on it when it returns (cancelled, README.md missing) and
\* one clearSamInitState call when it ends through the exception handler.
C28_ResumeStateSetThenCleared ==
    \A r \in Runs :
        /\ Persisted(r) <=> Has(run[r].stateCalls, "set")
        /\ At(r, "addFolderToWorkspace") =>
              /\ run[r].stateCalls = <<"set">>
              /\ HoldsStateOf(r) \/ LeftByOther(r, samInitState)
        /\ (Done(r) /\ Persisted(r)) =>
              /\ Len(run[r].stateCalls) \in {2, 3}
              /\ \A k \in 2..Len(run[r].stateCalls) : run[r].stateCalls[k] = "clear"
              /\ samInitState = NoState \/ (samInitState.set /\ LeftByOther(r, samInitState))
        /\ (Done(r) /\ ~Persisted(r)) =>
              run[r].stateCalls = IF run[r].threw = "none" THEN <<>> ELSE <<"clear">>
        /\ (At(r, "idle") /\ \A q \in Runs \ {r} : Done(q)) => samInitState = NoState

\* The poll of a run timed out after the run had persisted the state, and
\* the run ended with the state cleared by its one clearSamInitState call.
C28_Witness ==
    \E r \in Runs :
        /\ Done(r)
        /\ Persisted(r)
        /\ run[r].pollOutcome = "timeout"
        /\ run[r].threw = "none"
        /\ run[r].stateCalls = <<"set", "clear">>
        /\ samInitState = NoState

\* C29 as stated: in the recorded event Succeeded comes only with 'complete',
\* Cancelled only with 'userCancelled', Failed only with 'error' or
\* 'fileNotFound', and 'unknown' is never recorded.
C29_AsStated ==
    \A r \in Runs :
        Done(r) =>
            /\ Outcome(r).result = "Succeeded" => Outcome(r).reason = "complete"
            /\ Outcome(r).result = "Cancelled" => Outcome(r).reason = "userCancelled"
            /\ Outcome(r).result = "Failed" => Outcome(r).reason \in {"error", "fileNotFound"}
            /\ Outcome(r).reason # "unknown"

\* C25 as stated: stamping the runtime leaves the provider's list as it was
\* returned: same length and order, the configurations that do not match
\* unchanged, and the provider's own configurations not modified.
C25_AsStated ==
    Stamped =>
        /\ Len(rc.objects) = Len(rc.provided.list)
        /\ \A i \in DOMAIN rc.objects :
              ~InList(rc.filtered, i) => rc.objects[i] = rc.provided.list[i]
        /\ \A i \in DOMAIN rc.objects : rc.objects[i] = rc.provided.list[i]

-----------------------------------------------------------------------------
(* resumeCreateNewSamApp on its own, called with every persisted state and  *)
(* workspace of a bounded set.                                              *)

ResumeUri == Location \o <<AppName, "README.md">>

\* What getSamInitState can return: a state written by setSamInitState, or undefined.
TestResumeStates ==
    {NoState} \cup
    { [set |-> TRUE, path |-> ResumeUri, runtime |-> rt, isImage |-> img] :
        rt \in Runtimes, img \in BOOLEAN }

TestWorkspaces ==
    { {}, {Location}, {<<"", "other">>}, {Location, Location \o <<AppName>>} }

SamCliVersions == {"1.0.0", "1.13.2"}

\* What SamDebugConfigProvider can answer with after the reload.
ResumeProviderAnswers ==
    RunProviderAnswers \cup
    { Configurations(<<Cfg("app:README",
                           TemplateTarget(<<WorkspaceFolderVar, AppName, "README.md">>),
                           [defined |-> TRUE, runtime |-> "dotnetcore3.1", memoryMb |-> 128])>>) }

InitResume ==
    /\ run = [r \in Runs |-> InitRun]
    /\ samInitState \in TestResumeStates
    /\ workspaceFolders \in TestWorkspaces
    /\ projectsOnDisk = {}
    /\ launchJson = <<>>
    /\ rc = RcIdle
    /\ cli = CliIdle
    /\ client = ClientIdle
    /\ resume = ResumeIdle

ResumeCommit(s) ==
    LET left == ResumeLeave(s)
    IN  /\ resume' = [left EXCEPT !.stateWrite = "keep"]
        /\ samInitState' = IF left.stateWrite = "clear" THEN NoState ELSE samInitState

\* The call is made: getSamInitState, Uri.file, getWorkspaceFolder (lines 119-139).
\* Uri.file(undefined) is outside the repository: it throws, or it yields a
\* uri that no workspace folder holds.
ResumeStart ==
    /\ resume.pc = "idle"
    /\ LET s == ResumeStarted(samInitState)
       IN  IF samInitState.set
           THEN ResumeCommit(ResumeFolderLookedUp(s, getWorkspaceFolder(workspaceFolders,
                                                                        StatePath(samInitState))))
           ELSE \/ ResumeCommit(Raise(s, "Uri.file"))
                \/ ResumeCommit(ResumeFolderLookedUp(s, NoFolder))
    /\ UNCHANGED <<run, workspaceFolders, projectsOnDisk, launchJson, rc, cli, client>>

ResumeGetSamCliVersion ==
    /\ resume.pc = "getSamCliVersion"
    /\ \E v \in SamCliVersions : ResumeCommit(ResumeVersionRead(resume, v))
    /\ UNCHANGED <<run, workspaceFolders, projectsOnDisk, launchJson, rc, cli, client>>

ResumeProvide ==
    /\ resume.pc = "addInitialLaunchConfiguration"
    /\ resume.recon.phase = "provide"
    /\ \E out \in ResumeProviderAnswers :
          ResumeCommit(ReconOutcome([resume EXCEPT !.recon = ReconProvided(@, out, launchJson)]))
    /\ UNCHANGED <<run, workspaceFolders, projectsOnDisk, launchJson, rc, cli, client>>

ResumeProvideRejected ==
    /\ resume.pc = "addInitialLaunchConfiguration"
    /\ resume.recon.phase = "provide"
    /\ ResumeCommit(ReconOutcome([resume EXCEPT !.recon = ReconProviderFailed(@)]))
    /\ UNCHANGED <<run, workspaceFolders, projectsOnDisk, launchJson, rc, cli, client>>

ResumePersist ==
    /\ resume.pc = "addInitialLaunchConfiguration"
    /\ resume.recon.phase = "persist"
    /\ ResumeCommit(ReconOutcome([resume EXCEPT !.recon = ReconPersisted(@)]))
    /\ launchJson' = LaunchJsonWritten(resume.recon)
    /\ UNCHANGED <<run, workspaceFolders, projectsOnDisk, rc, cli, client>>

ResumePersistRejected ==
    /\ resume.pc = "addInitialLaunchConfiguration"
    /\ resume.recon.phase = "persist"
    /\ ResumeCommit(ReconOutcome([resume EXCEPT !.recon = ReconPersistFailed(@)]))
    /\ UNCHANGED <<run, workspaceFolders, projectsOnDisk, launchJson, rc, cli, client>>

\* The call goes on after addInitialLaunchConfiguration settled.
ResumeAddInitialLaunchConfigurationSettled ==
    /\ resume.pc = "addInitialLaunchConfiguration.settled"
    /\ ResumeCommit(ResumeLaunchConfigurationAdded(resume))
    /\ UNCHANGED <<run, workspaceFolders, projectsOnDisk, launchJson, rc, cli, client>>

\* The document was opened: the try block is over (line 149).
ResumeDocumentOpened ==
    /\ resume.pc = "showTextDocument"
    /\ ResumeCommit(Return(resume))
    /\ UNCHANGED <<run, workspaceFolders, projectsOnDisk, launchJson, rc, cli, client>>

\* getSamCliVersion or showTextDocument rejected.
ResumeRejected ==
    /\ resume.pc \in {"getSamCliVersion", "showTextDocument"}
    /\ ResumeCommit(Raise(resume, resume.pc))
    /\ UNCHANGED <<run, workspaceFolders, projectsOnDisk, launchJson, rc, cli, client>>

ResumeStep ==
    \/ ResumeGetSamCliVersion
    \/ ResumeProvide
    \/ ResumeProvideRejected
    \/ ResumePersist
    \/ ResumePersistRejected
    \/ ResumeAddInitialLaunchConfigurationSettled
    \/ ResumeDocumentOpened
    \/ ResumeRejected

NextResume == ResumeStart \/ ResumeStep

SpecResume == InitResume /\ [][NextResume]_vars

\* Every awaited call settles, and the continuation then runs.
FairSpecResume == SpecResume /\ WF_vars(ResumeStep)

-----------------------------------------------------------------------------
(* Properties of resumeCreateNewSamApp.                                     *)

ResumeDone == resume.pc = "done"

\* C27: the resume path awaits nothing but the CLI version, the reconciler
\* and the document opening, in that order; it never runs sam init, the
\* schema download or the workspace-folder add (no project appears on disk,
\* the workspace folders stay as they were); and the reconciler gets the
\* persisted runtime exactly when the persisted state is an Image project.
C27_ResumeStepsOnly ==
    [][/\ \E n \in 0..3 :
             resume'.called = SubSeq(<<"getSamCliVersion", "addInitialLaunchConfiguration",
                                       "showTextDocument">>, 1, n)
       /\ workspaceFolders' = workspaceFolders
       /\ projectsOnDisk' = projectsOnDisk
       /\ (resume'.pc = "addInitialLaunchConfiguration" \/ resume'.recon.phase # "provide") =>
             /\ resume'.recon.target = StatePath(resume'.samInitState)
             /\ resume'.recon.runtime =
                   IF StateIsImage(resume'.samInitState)
                   THEN StateRuntime(resume'.samInitState) ELSE Undefined]_vars

\* An Image state went through the three awaited calls, its runtime passed on.
C27_Witness ==
    /\ ResumeDone
    /\ resume.called = <<"getSamCliVersion", "addInitialLaunchConfiguration", "showTextDocument">>
    /\ resume.samInitState.set /\ resume.samInitState.isImage
    /\ resume.recon.runtime = resume.samInitState.runtime
    /\ resume.recon.phase = "returned"
    /\ workspaceFolders # {}

ResumeSucceeded ==
    /\ resume.folder.found
    /\ resume.recon.phase = "returned"
    /\ resume.threw = "none"
    /\ "showTextDocument" \in Range(resume.called)

\* C30: a call that is over has cleared the persisted state, then recorded
\* one event; the event is Succeeded / complete when the folder was found
\* and the reconciler and the document opening succeeded, else Failed /
\* error; without a folder the reconciler is not called and nothing is
\* persisted.  Every call gets to its end.
C30_ResumeOutcome ==
    /\ [](/\ Len(resume.records) <= 1
          /\ Len(resume.records) = 1 <=> ResumeDone
          /\ ResumeDone =>
                /\ samInitState = NoState
                /\ resume.clears = 1
                /\ resume.clearsAtRecord = <<1>>
                /\ LET e == resume.records[1]
                   IN  /\ <<e.result, e.reason>> =
                             IF ResumeSucceeded THEN <<"Succeeded", "complete">>
                             ELSE <<"Failed", "error">>
                       /\ e.lambdaPackageType =
                             IF StateIsImage(resume.samInitState) THEN "Image" ELSE "Zip"
                       /\ e.runtime = StateRuntime(resume.samInitState)
                       /\ e.version = resume.samVersion
          /\ (resume.pc # "idle" /\ ~resume.folder.found) =>
                /\ resume.recon.phase = "provide"
                /\ "addInitialLaunchConfiguration" \notin Range(resume.called)
                /\ launchJson = <<>>)
    /\ (resume.pc # "idle") ~> ResumeDone

\* The folder was not found: Failed / error with the error message, state cleared.
C30_Witness ==
    /\ ResumeDone
    /\ resume.samInitState.set
    /\ ~resume.folder.found
    /\ resume.threw = "none"
    /\ resume.records[1].result = "Failed"
    /\ Len(resume.notifications) = 1
    /\ samInitState = NoState

-----------------------------------------------------------------------------
(* Two invocations of createNewSamApplication in flight at once.  Nothing   *)
(* in the function takes a lock: a second invocation starts whatever the    *)
(* first is suspended on.                                                   *)

InFlight(r) == run[r].pc \notin {"idle", "done"}

\* addDebugConfigurations of run r completed: launch.json was written.
Wrote(r) == run[r].recon.phase = "returned" /\ ~run[r].recon.returned.absent

Entries(r) == run[r].recon.persistArgs[1].values

Holds(configurations, entries) ==
    \A k \in DOMAIN entries : Has(configurations, entries[k])

\* C23: two invocations are not mutually excluded.  An invocation can start
\* and a suspended invocation can go on whatever the other one is doing.  The
\* persisted resume state is whatever the last writer left, so an invocation
\* waiting for its workspace-folder add can find the state it persisted
\* replaced or cleared by the other invocation, and only by it.  launch.json
\* is what the last addDebugConfigurations call to complete wrote, so the
\* configurations an invocation added are missing from it only when the
\* other invocation, which had read the file before they were added, wrote
\* it afterwards.
C23_NotMutuallyExcluded ==
    /\ \A r \in Runs : At(r, "idle") => ENABLED Start(r)
    /\ \A r \in Runs : InFlight(r) => ENABLED MainStep(r)
    /\ samInitState.set =>
          \E r \in Runs : Persisted(r) /\ samInitState = SamInitStateOf(run[r])
    /\ \A r \in Runs :
          (At(r, "addFolderToWorkspace") /\ samInitState # SamInitStateOf(run[r])) =>
              \E q \in Runs \ {r} :
                  /\ ~At(q, "idle")
                  /\ samInitState.set => (Persisted(q) /\ samInitState = SamInitStateOf(run[q]))
                  /\ ~samInitState.set =>
                        (Done(q) \/ Has(run[q].called, "openDocument"))
    /\ IF \E r \in Runs : Wrote(r)
       THEN \E r \in Runs : Wrote(r) /\ launchJson = LaunchJsonWritten(run[r].recon)
       ELSE launchJson = <<>>
    /\ \A r \in Runs :
          (Wrote(r) /\ ~Holds(launchJson, Entries(r))) =>
              \E q \in Runs \ {r} :
                  /\ Wrote(q)
                  /\ launchJson = LaunchJsonWritten(run[q].recon)
                  /\ ~Holds(run[q].recon.existing, Entries(r))

\* Both invocations persisted a resume state, each its own, and both were
\* inside addDebugConfigurations at the same time, each having read an empty
\* launch.json: the file holds the configuration of the one that completed
\* last, and the configuration the other one added is gone.
C23_Witness ==
    \E r \in Runs, q \in Runs :
        /\ r # q
        /\ Wrote(r) /\ Wrote(q)
        /\ SamInitStateOf(run[r]) # SamInitStateOf(run[q])
        /\ Entries(r) # <<>> /\ Entries(q) # <<>>
        /\ Entries(r) # Entries(q)
        /\ run[r].recon.existing = <<>> /\ run[q].recon.existing = <<>>
        /\ launchJson = Entries(q)

====
